------------------------------- MODULE Cells -------------------------------
(***************************************************************************)
(* The scalar semantics of the data layer (src/core/transform.rs, the      *)
(* "pinned scalar semantics"): the cells of a table, their order, their    *)
(* two equalities, arithmetic, casts, rounding and the scalar functions.   *)
(*                                                                         *)
(* A cell is a pair <<tag, value>>.  An int's value is an integer; a       *)
(* float's and a decimal's a fraction <<n, d>> in lowest terms, with       *)
(* <<0, 0>> for NaN (the infinities are left out); a text's, a date's and  *)
(* a timestamp's a sequence of symbols, in which one symbol stands for a   *)
(* whole "YYYY-MM-DD".  The answer of an evaluation is a cell or           *)
(* <<"error", kind>>, the EvalError of that kind.                          *)
(***************************************************************************)
EXTENDS Integers, Sequences, SequencesExt, FiniteSets, TLC

CONSTANTS
    Rank,       \* the order of the symbols a text is made of
    Civil,      \* the symbols that read as a day, and the day each reads as
    LowerOf,    \* the lower-case symbol of each symbol
    UpperOf,    \* the upper-case symbol of each symbol
    Blank,      \* the symbols Trim removes
    Band,       \* the magnitude an int power and a decimal-to-int cast stay in
    MaxScale,   \* the largest rounding scale
    HostMath(_, _)  \* what the host's powf / exp / ln / log10 answer

Tag(c) == c[1]
Val(c) == c[2]

Null == <<"null", 0>>
Int_(n) == <<"int", n>>
Float(q) == <<"float", q>>
Bool(b) == <<"bool", b>>
Str(s) == <<"str", s>>
Date(s) == <<"date", s>>
Timestamp(s) == <<"timestamp", s>>
Decimal(q) == <<"decimal", q>>
Err(kind) == <<"error", kind>>

TypeError == Err("TypeError")
ArityError == Err("ArityError")
IsErr(c) == Tag(c) = "error"
IsNull(c) == Tag(c) = "null"

----------------------------------------------------------------------------
(* Fractions, for the floats and the exact decimals.                       *)

Magnitude(n) == IF n < 0 THEN -n ELSE n

RECURSIVE Gcd(_, _)
Gcd(a, b) == IF b = 0 THEN a ELSE Gcd(b, a % b)

Lowest(n, d) ==
    LET g == Gcd(Magnitude(n), Magnitude(d))
        s == IF d < 0 THEN -1 ELSE 1
    IN  <<s * (n \div g), s * (d \div g)>>

NaN == <<0, 0>>
Whole(n) == <<n, 1>>
IsNaN(q) == q[2] = 0
AddQ(p, q) == IF IsNaN(p) \/ IsNaN(q) THEN NaN
              ELSE Lowest(p[1] * q[2] + q[1] * p[2], p[2] * q[2])
NegQ(q) == <<-q[1], q[2]>>
SubQ(p, q) == AddQ(p, NegQ(q))
MulQ(p, q) == IF IsNaN(p) \/ IsNaN(q) THEN NaN
              ELSE Lowest(p[1] * q[1], p[2] * q[2])
DivQ(p, q) == IF IsNaN(p) \/ IsNaN(q) THEN NaN
              ELSE Lowest(p[1] * q[2], p[2] * q[1])
FloorQ(q) == q[1] \div q[2]
CeilQ(q) == -((-q[1]) \div q[2])
TruncQ(q) == IF q[1] < 0 THEN CeilQ(q) ELSE FloorQ(q)
SumQ(s) == FoldLeft(AddQ, Whole(0), s)

\* The remainder that has the dividend's sign.
RemQ(p, q) == SubQ(p, MulQ(Whole(TruncQ(DivQ(p, q))), q))

----------------------------------------------------------------------------
(* The order of the cells.  -1, 0 and 1 are Less, Equal and Greater.       *)

Incomparable == 2

Sign(n) == CASE n < 0 -> -1 [] n = 0 -> 0 [] OTHER -> 1

\* A mutant: NaN compared as the hardware does.
CompareFloatPlain(p, q) == Sign(p[1] * q[2] - q[1] * p[2])

\* NaN is one value above every other.
CompareFloat(p, q) ==
    CASE IsNaN(p) /\ IsNaN(q) -> 0
      [] IsNaN(p) -> 1
      [] IsNaN(q) -> -1
      [] OTHER -> Sign(p[1] * q[2] - q[1] * p[2])

CompareText(s, t) ==
    IF s = t THEN 0
    ELSE IF IsPrefix(s, t) THEN -1
    ELSE IF IsPrefix(t, s) THEN 1
    ELSE LET i == CHOOSE i \in DOMAIN s :
                     s[i] # t[i] /\ SubSeq(s, 1, i - 1) = SubSeq(t, 1, i - 1)
         IN  Sign(Rank[s[i]] - Rank[t[i]])

\* The text of an instant ends in "Z", after a fraction where it has one: the
\* key drops the "Z" and pads an absent fraction with "0", so the order of the
\* keys is the order of the instants.
InstantKey(s) ==
    IF s = <<>> \/ Last(s) # "Z" THEN s
    ELSE IF Len(s) = 3 THEN [s EXCEPT ![3] = "0"] ELSE Front(s)

IsNum(c) == Tag(c) \in {"int", "float"}
IsExact(c) == Tag(c) \in {"int", "decimal"}
AsNum(c) == IF Tag(c) = "int" THEN Whole(Val(c)) ELSE Val(c)

CompareCells(a, b) ==
    CASE IsNum(a) /\ IsNum(b) -> CompareFloat(AsNum(a), AsNum(b))
      [] IsExact(a) /\ IsExact(b) -> CompareFloat(AsNum(a), AsNum(b))
      [] Tag(a) # Tag(b) -> Incomparable
      [] Tag(a) = "bool" -> IF Val(a) = Val(b) THEN 0 ELSE IF Val(a) THEN 1 ELSE -1
      [] Tag(a) = "timestamp" -> CompareText(InstantKey(Val(a)), InstantKey(Val(b)))
      [] OTHER -> CompareText(Val(a), Val(b))

\* The match of a join key and of a pivot's on value: a decimal only against a
\* decimal, a null against nothing.
CellEq(a, b) ==
    /\ ~IsNull(a) /\ ~IsNull(b)
    /\ Tag(a) = "decimal" <=> Tag(b) = "decimal"
    /\ CompareCells(a, b) = 0

\* The identity of a cell, which grouping, Distinct and the set operations use:
\* its token names its tag, so the int 1 and the float 1 are two.
Token(c) == c

----------------------------------------------------------------------------
(* Texts.                                                                  *)

Digit == <<"0", "1", "2", "3", "4", "5", "6", "7", "8", "9">>

RECURSIVE Digits(_)
Digits(n) ==
    IF n < 0 THEN <<"-">> \o Digits(-n)
    ELSE IF n < 10 THEN <<Digit[n + 1]>>
    ELSE Append(Digits(n \div 10), Digit[(n % 10) + 1])

\* The spelling of a fraction that is not whole is abstracted to n/d.
NumberText(q) ==
    IF IsNaN(q) THEN <<"NaN">>
    ELSE IF q[2] = 1 THEN Digits(q[1]) ELSE Digits(q[1]) \o <<"/">> \o Digits(q[2])

CellString(c) ==
    CASE Tag(c) = "int" -> Digits(Val(c))
      [] Tag(c) \in {"float", "decimal"} -> NumberText(Val(c))
      [] Tag(c) = "bool" -> IF Val(c) THEN <<"true">> ELSE <<"false">>
      [] Tag(c) = "null" -> <<>>
      [] OTHER -> Val(c)

TrimText(s) ==
    LET kept == {i \in DOMAIN s : s[i] \notin Blank}
    IN  IF kept = {} THEN <<>>
        ELSE SubSeq(s, CHOOSE i \in kept : \A j \in kept : i <= j,
                       CHOOSE i \in kept : \A j \in kept : i >= j)

Unsigned(s) == IF s # <<>> /\ s[1] = "-" THEN Tail(s) ELSE s
ReadsAsInt(s) ==
    LET u == Unsigned(TrimText(s)) IN u # <<>> /\ \A i \in DOMAIN u : u[i] \in Range(Digit)
IntOf(s) ==
    LET t == TrimText(s)
        n == FoldLeft(LAMBDA acc, ch : 10 * acc + (CHOOSE i \in 1..10 : Digit[i] = ch) - 1,
                      0, Unsigned(t))
    IN  IF t[1] = "-" THEN -n ELSE n

\* A float's or a decimal's grammar, over the spellings NumberText makes.
Slash(s) == {i \in DOMAIN s : s[i] = "/"}
ReadsAsNumber(s) ==
    \/ ReadsAsInt(s)
    \/ \E i \in Slash(s) : ReadsAsInt(SubSeq(s, 1, i - 1)) /\ ReadsAsInt(SubSeq(s, i + 1, Len(s)))
NumberOf(s) ==
    IF ReadsAsInt(s) THEN Whole(IntOf(s))
    ELSE LET i == CHOOSE i \in Slash(s) : TRUE
         IN  Lowest(IntOf(SubSeq(s, 1, i - 1)), IntOf(SubSeq(s, i + 1, Len(s))))

-----------------------------------------------------------------------------
(***************************************************************************)
(* The operators and functions of a column expression.  Every one answers  *)
(* a cell or an EvalError, and tests for a null, an arity and a type in    *)
(* the order the code does.                                                *)
(***************************************************************************)
AnyNull(cs) == \E i \in DOMAIN cs : IsNull(cs[i])

----------------------------------------------------------------------------
(* Binary operators.                                                       *)

ArithOps == {"add", "sub", "mul", "div", "mod"}
ComparisonOps == {"eq", "ne", "lt", "le", "gt", "ge"}
StringPreds == {"contains", "startsWith", "endsWith"}
LogicalOps == {"and", "or"}

\* Two exact operands, at least one a decimal: exact, and a decimal.  A quotient
\* of decimals has to name its rounding.
DecimalArith(op, p, q) ==
    CASE op = "add" -> Decimal(AddQ(p, q))
      [] op = "sub" -> Decimal(SubQ(p, q))
      [] op = "mul" -> Decimal(MulQ(p, q))
      [] op = "mod" -> IF q[1] = 0 THEN Null ELSE Decimal(RemQ(p, q))
      [] OTHER -> TypeError

IntArith(op, m, n) ==
    CASE op = "add" -> Int_(m + n)
      [] op = "sub" -> Int_(m - n)
      [] op = "mul" -> Int_(m * n)
      [] op = "div" -> IF n = 0 THEN Null ELSE Float(DivQ(Whole(m), Whole(n)))
      [] OTHER -> IF n = 0 THEN Null ELSE Int_(RemQ(Whole(m), Whole(n))[1])

FloatArith(op, p, q) ==
    CASE op = "add" -> Float(AddQ(p, q))
      [] op = "sub" -> Float(SubQ(p, q))
      [] op = "mul" -> Float(MulQ(p, q))
      [] op = "div" -> IF CompareFloat(q, Whole(0)) = 0 THEN Null ELSE Float(DivQ(p, q))
      [] OTHER -> TypeError

Arith(op, a, b) ==
    CASE IsNull(a) \/ IsNull(b) -> Null
      [] Tag(a) = "int" /\ Tag(b) = "int" -> IntArith(op, Val(a), Val(b))
      [] IsExact(a) /\ IsExact(b) -> DecimalArith(op, AsNum(a), AsNum(b))
      [] IsNum(a) /\ IsNum(b) -> FloatArith(op, AsNum(a), AsNum(b))
      [] OTHER -> TypeError

Holds(op, c) ==
    CASE op = "eq" -> c = 0   [] op = "ne" -> c # 0
      [] op = "lt" -> c = -1  [] op = "le" -> c # 1
      [] op = "gt" -> c = 1   [] op = "ge" -> c # -1

Comparison(op, a, b) ==
    IF IsNull(a) \/ IsNull(b) THEN Null
    ELSE LET c == CompareCells(a, b)
         IN  IF c = Incomparable THEN TypeError ELSE Bool(Holds(op, c))

\* Kleene's AND and OR, a null being the unknown.
Logical(op, a, b) ==
    LET decisive == Bool(op = "or")
    IN  CASE ~({Tag(a), Tag(b)} \subseteq {"bool", "null"}) -> TypeError
          [] a = decisive \/ b = decisive -> decisive
          [] IsNull(a) \/ IsNull(b) -> Null
          [] OTHER -> Bool(op = "and")

Occurs(s, t) == \E i \in 0 .. Len(s) - Len(t) : SubSeq(s, i + 1, i + Len(t)) = t

StringPred(op, a, b) ==
    CASE IsNull(a) \/ IsNull(b) -> Null
      [] Tag(a) # "str" \/ Tag(b) # "str" -> TypeError
      [] op = "contains" -> Bool(Occurs(Val(a), Val(b)))
      [] op = "startsWith" -> Bool(IsPrefix(Val(b), Val(a)))
      [] op = "endsWith" -> Bool(IsSuffix(Val(b), Val(a)))

Binary(op, a, b) ==
    CASE op \in ArithOps -> Arith(op, a, b)
      [] op \in ComparisonOps -> Comparison(op, a, b)
      [] op \in StringPreds -> StringPred(op, a, b)
      [] op \in LogicalOps -> Logical(op, a, b)

Not(a) ==
    CASE Tag(a) = "bool" -> Bool(~Val(a)) [] IsNull(a) -> Null [] OTHER -> TypeError

\* SQL membership: an equal item answers true; no match after a null is unknown.
\* The items are compared one by one, so an incomparable item past the match is
\* never met.
MemberBy(items, cs) ==
    LET stops == {i \in DOMAIN items : IsErr(items[i]) \/ cs[i] \in {0, Incomparable}}
        i == CHOOSE i \in stops : \A j \in stops : i <= j
    IN  CASE stops # {} /\ IsErr(items[i]) -> items[i]
          [] stops # {} -> IF cs[i] = 0 THEN Bool(TRUE) ELSE TypeError
          [] OTHER -> IF AnyNull(items) THEN Null ELSE Bool(FALSE)

Member(subject, items) ==
    IF IsNull(subject) THEN Null
    ELSE MemberBy(items, [i \in DOMAIN items |->
            IF IsNull(items[i]) THEN Incomparable + 1 ELSE CompareCells(subject, items[i])])

----------------------------------------------------------------------------
(* Casts.                                                                  *)

TimestampTypes == {"timestamp", "timestamp_ms", "timestamp_us", "timestamp_ns"}
ColumnType ==
    {"int", "float", "bool", "str", "date", "decimal"} \cup TimestampTypes

InBand(n) == -Band <= n /\ n < Band

CastInt(c) ==
    CASE Tag(c) = "int" -> c
      [] Tag(c) = "float" -> Int_(IF IsNaN(Val(c)) THEN 0 ELSE TruncQ(Val(c)))
      [] Tag(c) = "decimal" ->
            IF InBand(TruncQ(Val(c))) THEN Int_(TruncQ(Val(c))) ELSE TypeError
      [] Tag(c) = "bool" -> Int_(IF Val(c) THEN 1 ELSE 0)
      [] Tag(c) = "str" -> IF ReadsAsInt(Val(c)) THEN Int_(IntOf(Val(c))) ELSE TypeError
      [] OTHER -> TypeError

CastCell(ty, c) ==
    CASE IsNull(c) -> Null
      [] ty = "str" -> Str(CellString(c))
      [] ty = "int" -> CastInt(c)
      [] ty \in {"float", "decimal"} ->
            CASE IsExact(c) -> <<ty, AsNum(c)>>
              [] Tag(c) = "float" /\ (ty = "float" \/ ~IsNaN(Val(c))) -> <<ty, Val(c)>>
              [] Tag(c) = "str" /\ ReadsAsNumber(Val(c)) -> <<ty, NumberOf(Val(c))>>
              [] OTHER -> TypeError
      [] ty = "bool" ->
            CASE Tag(c) = "bool" -> c [] Tag(c) = "int" -> Bool(Val(c) # 0) [] OTHER -> TypeError
      [] ty = "date" ->
            CASE Tag(c) = "date" -> c [] Tag(c) = "str" -> Date(Val(c)) [] OTHER -> TypeError
      [] ty \in TimestampTypes ->
            CASE Tag(c) = "timestamp" -> c [] Tag(c) = "str" -> Timestamp(Val(c))
              [] OTHER -> TypeError

----------------------------------------------------------------------------
(* Rounding: the one kernel, over the seven modes.                         *)

RoundWhole(mode, q) ==
    LET below == FloorQ(q)
        twice == SubQ(MulQ(Whole(2), q), Whole(2 * below))  \* twice the part above it
        side  == CompareFloat(twice, Whole(1))
        away  == IF q[1] < 0 THEN below ELSE CeilQ(q)
    IN  CASE mode = "floor" -> below
          [] mode = "ceiling" -> CeilQ(q)
          [] mode = "down" -> TruncQ(q)
          [] mode = "up" -> away
          [] side # 0 -> IF side = 1 THEN below + 1 ELSE below
          [] mode = "halfUp" -> away
          [] mode = "halfDown" -> TruncQ(q)
          [] mode = "halfEven" -> IF below % 2 = 0 THEN below ELSE below + 1

Quantize(mode, scale, q) ==
    LET unit == Whole(10 ^ scale) IN DivQ(Whole(RoundWhole(mode, MulQ(q, unit))), unit)

\* A rounding's scale is a literal, or the int a param is bound to.
ResolveScale(env, scale) ==
    IF scale.param = "" THEN Int_(scale.lit)
    ELSE IF scale.param \notin DOMAIN env THEN Err("UnboundParam")
    ELSE IF Tag(env[scale.param]) = "int" THEN env[scale.param] ELSE TypeError

RoundedCell(mode, scale, c) ==
    CASE scale \notin 0 .. MaxScale -> TypeError
      [] IsNull(c) -> Null
      [] IsExact(c) -> Decimal(Quantize(mode, scale, AsNum(c)))
      [] OTHER -> TypeError

QuotientCell(mode, scale, a, b) ==
    CASE scale \notin 0 .. MaxScale -> TypeError
      [] IsNull(a) \/ IsNull(b) -> Null
      [] ~(IsExact(a) /\ IsExact(b)) -> TypeError
      [] AsNum(b)[1] = 0 -> Null
      [] OTHER -> Decimal(Quantize(mode, scale, DivQ(AsNum(a), AsNum(b))))

----------------------------------------------------------------------------
(* Powers.                                                                 *)

\* The product tree over a float base, exponent k > 0; acc is empty (<<>>) until
\* the first set bit.
RECURSIVE PowGo(_, _, _)
PowGo(acc, b, k) ==
    LET next == IF k % 2 = 0 THEN acc ELSE IF acc = <<>> THEN b ELSE MulQ(acc, b)
    IN  IF k \div 2 = 0 THEN next ELSE PowGo(next, MulQ(b, b), k \div 2)

PowIntFloat(x, n) ==
    IF n = 0 THEN Float(Whole(1))
    ELSE LET p == PowGo(<<>>, x, Magnitude(n))
         IN  IF n > 0 THEN Float(p) ELSE IF p[1] = 0 THEN Null ELSE Float(DivQ(Whole(1), p))

\* Every product that leaves the band is refused, a base square with exponent
\* bits still to take included.
RECURSIVE PowIntGo(_, _, _)
PowIntGo(acc, b, k) ==
    LET next == IF k % 2 = 0 THEN acc ELSE acc * b
    IN  CASE ~InBand(next) -> TypeError
          [] k \div 2 = 0 -> Int_(next)
          [] ~InBand(b * b) -> TypeError
          [] OTHER -> PowIntGo(next, b * b, k \div 2)
PowIntExact(x, n) == IF n = 0 THEN Int_(1) ELSE PowIntGo(1, x, n)

PowFloat(x, y) ==
    CASE IsNaN(x) \/ IsNaN(y) -> Float(NaN)
      [] y = Whole(0) \/ x = Whole(1) -> Float(Whole(1))
      [] x = Whole(0) /\ y[1] < 0 -> Null
      [] x[1] < 0 /\ y[2] # 1 -> Null
      [] OTHER -> Float(HostMath("pow", <<x, y>>))

PowCell(a, b) ==
    CASE IsNull(a) \/ IsNull(b) -> Null
      [] ~(IsNum(a) /\ IsNum(b)) -> TypeError
      [] Tag(b) = "float" -> PowFloat(AsNum(a), AsNum(b))
      [] Tag(a) = "int" /\ Val(b) >= 0 -> PowIntExact(Val(a), Val(b))
      [] IsNaN(AsNum(a)) -> Float(NaN)
      [] OTHER -> PowIntFloat(AsNum(a), Val(b))

\* exp, ln and log10: NaN propagates, a logarithm of zero or less is null and of
\* one is zero; the rest is the host's.
Transcendental(func, c) ==
    CASE IsNull(c) -> Null
      [] ~IsNum(c) -> TypeError
      [] IsNaN(AsNum(c)) -> Float(NaN)
      [] func # "exp" /\ AsNum(c)[1] <= 0 -> Null
      [] func # "exp" /\ AsNum(c) = Whole(1) -> Float(Whole(0))
      [] OTHER -> Float(HostMath(func, <<AsNum(c)>>))

----------------------------------------------------------------------------
(* Days.                                                                   *)

\* Days since 1970-01-01, by the era / day-of-era arithmetic.
CivilDays(y0, m, d) ==
    LET y   == IF m <= 2 THEN y0 - 1 ELSE y0
        era == y \div 400
        yoe == y - era * 400
        mp  == IF m > 2 THEN m - 3 ELSE m + 9
        doy == (153 * mp + 2) \div 5 + d - 1
    IN  era * 146097 + yoe * 365 + yoe \div 4 - yoe \div 100 + doy - 719468

DayTags == {"date", "timestamp", "str"}
ReadsAsDay(c) == Tag(c) \in DayTags /\ Val(c) # <<>> /\ Val(c)[1] \in DOMAIN Civil
DayOf(c) == Civil[Val(c)[1]]

DateDiffDays(a, b) ==
    CASE IsNull(a) \/ IsNull(b) -> Null
      [] ~(ReadsAsDay(a) /\ ReadsAsDay(b)) -> TypeError
      [] OTHER -> LET p == DayOf(a)  q == DayOf(b)
                  IN  Int_(CivilDays(q[1], q[2], q[3]) - CivilDays(p[1], p[2], p[3]))

DatePart(part, date) ==
    LET place == CASE part = Str(<<"year">>) -> 1 [] part = Str(<<"month">>) -> 2
                   [] part = Str(<<"day">>) -> 3 [] OTHER -> 0
    IN  CASE IsNull(date) -> Null
          [] ~ReadsAsDay(date) \/ place = 0 -> TypeError
          [] OTHER -> Int_(DayOf(date)[place])

----------------------------------------------------------------------------
(* The scalar functions.                                                   *)

Substr(s, start, len) ==
    CASE IsNull(s) -> Null
      [] <<Tag(s), Tag(start), Tag(len)>> # <<"str", "int", "int">> -> TypeError
      [] OTHER ->
            LET n  == Len(Val(s))
                st == IF Val(start) < 0 THEN 0 ELSE IF Val(start) > n THEN n ELSE Val(start)
                ln == IF Val(len) < 0 THEN 0 ELSE IF Val(len) > n - st THEN n - st ELSE Val(len)
            IN  Str(SubSeq(Val(s), st + 1, st + ln))

\* Every occurrence, from the left, without overlap.
RECURSIVE ReplaceText(_, _, _)
ReplaceText(s, find, repl) ==
    CASE find = <<>> \/ s = <<>> -> s
      [] IsPrefix(find, s) ->
            repl \o ReplaceText(SubSeq(s, Len(find) + 1, Len(s)), find, repl)
      [] OTHER -> <<s[1]>> \o ReplaceText(Tail(s), find, repl)

Replace(cs) ==
    CASE AnyNull(cs) -> Null
      [] \E i \in 1..3 : Tag(cs[i]) # "str" -> TypeError
      [] OTHER -> Str(ReplaceText(Val(cs[1]), Val(cs[2]), Val(cs[3])))

\* Least keeps the first of equals, Greatest the last.
Extremum(func, cs) ==
    LET better(best, c) ==
            IF IsErr(best) THEN best
            ELSE LET k == CompareCells(best, c)
                 IN  CASE k = Incomparable -> TypeError
                       [] (func = "least") # (k # 1) -> c
                       [] OTHER -> best
    IN  IF AnyNull(cs) THEN Null ELSE FoldLeft(better, cs[1], Tail(cs))

UnaryFns == {"abs", "round", "floor", "ceil", "length", "lower", "upper", "trim",
             "exp", "ln", "log10"}
Arity(func) ==
    CASE func \in UnaryFns -> 1
      [] func \in {"datePart", "dateDiffDays", "pow"} -> 2
      [] func \in {"substr", "replace"} -> 3
VariadicFns == {"concat", "least", "greatest"}

\* Half away from zero over the float family, the rounding kernel over a decimal:
\* an int is answered as a float.
RoundFn(func, c) ==
    LET mode == CASE func = "round" -> "halfUp" [] func = "floor" -> "floor"
                  [] func = "ceil" -> "ceiling"
    IN  CASE Tag(c) = "decimal" -> RoundedCell(mode, 0, c)
          [] ~IsNum(c) -> TypeError
          [] IsNaN(AsNum(c)) -> Float(NaN)
          [] OTHER -> Float(Whole(RoundWhole(mode, AsNum(c))))

TextFn(func, c) ==
    IF Tag(c) # "str" THEN TypeError
    ELSE CASE func = "length" -> Int_(Len(Val(c)))
           [] func = "trim" -> Str(TrimText(Val(c)))
           [] func = "lower" -> Str([i \in DOMAIN Val(c) |-> LowerOf[Val(c)[i]]])
           [] func = "upper" -> Str([i \in DOMAIN Val(c) |-> UpperOf[Val(c)[i]]])

Abs(c) ==
    CASE Tag(c) = "int" -> Int_(Magnitude(Val(c)))
      [] Tag(c) \in {"float", "decimal"} -> <<Tag(c), <<Magnitude(Val(c)[1]), Val(c)[2]>>>>
      [] OTHER -> TypeError

ApplyScalar(func, cs) ==
    CASE func \in VariadicFns /\ cs = <<>> -> ArityError
      [] func = "concat" ->
            IF AnyNull(cs) THEN Null ELSE Str(FlattenSeq([i \in DOMAIN cs |-> CellString(cs[i])]))
      [] func \in {"least", "greatest"} -> Extremum(func, cs)
      [] Len(cs) # Arity(func) -> ArityError
      [] func = "substr" -> Substr(cs[1], cs[2], cs[3])
      [] func = "replace" -> Replace(cs)
      [] func = "datePart" -> DatePart(cs[1], cs[2])
      [] func = "dateDiffDays" -> DateDiffDays(cs[1], cs[2])
      [] func = "pow" -> PowCell(cs[1], cs[2])
      [] func \in {"exp", "ln", "log10"} -> Transcendental(func, cs[1])
      [] IsNull(cs[1]) -> Null
      [] func = "abs" -> Abs(cs[1])
      [] func \in {"round", "floor", "ceil"} -> RoundFn(func, cs[1])
      [] OTHER -> TextFn(func, cs[1])
=============================================================================
