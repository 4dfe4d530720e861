------------------------------ MODULE Pipeline ------------------------------
(***************************************************************************)
(* A transform pipeline folded step by step over a table                   *)
(* (src/core/transform.rs, eval_pipeline_with_in_env), beside two runs of  *)
(* the same steps that the properties compare it with: over the table's    *)
(* schema without its rows, and over the same quantities written in other  *)
(* units.                                                                  *)
(***************************************************************************)
EXTENDS Tables

CONSTANTS
    Tables,     \* the tables a source names, by name
    Inputs,     \* the names of those a pipeline starts from
    Steps,      \* the steps a pipeline may take, by name
    Env,        \* what the params are bound to
    ListEnv,    \* what the list params are bound to
    OtherAtom,  \* the atom each atom is rewritten to in the other units
    MaxSteps    \* the most steps a pipeline takes

VARIABLES
    frames,     \* each run's working frame, or the error that ended it
    taken       \* how many steps the pipeline has taken

vars == <<frames, taken>>

\* The pipeline over a table, over no rows, and over the table in other units.
Runs == {"own", "bare", "twin"}
frame == frames["own"]
bare == frames["bare"]
twin == frames["twin"]

----------------------------------------------------------------------------
(* The other units.                                                        *)

Swapped(u) ==
    [a \in Atoms |-> FoldLeft(LAMBDA acc, b : acc + u[b], 0,
                              SetToSeq({b \in Atoms : OtherAtom[b] = a}))]

Times(c, q) ==
    CASE Tag(c) = "int" -> Int_(MulQ(Whole(Val(c)), q)[1])
      [] Tag(c) \in {"float", "decimal"} -> <<Tag(c), MulQ(Val(c), q)>>
      [] OTHER -> c

SwapEntry(e) == [e EXCEPT !.unit = {Swapped(u) : u \in e.unit}]
SwapCell(c, e) ==
    IF e.unit = {} THEN c
    ELSE Times(c, ConversionFactor(UnitIn(e.unit), Swapped(UnitIn(e.unit))))

Rescaled(f) ==
    [f EXCEPT !.cols = [i \in DOMAIN f.cols |-> SwapEntry(f.cols[i])],
              !.rows = [r \in DOMAIN f.rows |->
                          [i \in DOMAIN f.cols |-> SwapCell(f.rows[r][i], f.cols[i])]]]

\* The conversions a step names are to the other units too.
RECURSIVE SwapExpr(_)
SwapExpr(e) ==
    LET sub == [i \in DOMAIN e.args |-> SwapExpr(e.args[i])]
    IN  IF e.op = "Convert" THEN [e EXCEPT !.args = sub, !.leaf = Swapped(e.leaf)]
        ELSE [e EXCEPT !.args = sub]

OtherTables == [t \in DOMAIN Tables |-> OfFrame(Rescaled(ToFrame(Tables[t])))]

\* Stated units meet only stated ones: nothing is measured against a bare number.
Even(units) == \/ \A i \in DOMAIN units : units[i] = {}
               \/ \A i \in DOMAIN units : units[i] # {}

\* Nothing in the expression depends on the number a quantity is written as.
HomogeneousNode(e, units) ==
    CASE e.op \in {"Coalesce", "InList"} -> Even(units)
      [] e.op = "Case" -> Even(Answers(units))
      [] e.op = "Binary" ->
            e.f \in {"mul", "div"} \/ (Even(units) /\ (e.f = "mod" => units[1] = {}))
      [] e.op = "Apply" -> IF e.f \in {"least", "greatest", "abs"} THEN Even(units)
                           ELSE e.f = "pow" \/ Stated(units) = {}
      [] e.op = "Cast" -> e.f \in {"float", "decimal"} \/ units[1] = {}
      [] e.op \in {"Rounded", "Quotient"} -> Stated(units) = {}
      [] OTHER -> TRUE

RECURSIVE Homogeneous(_, _)
Homogeneous(cols, e) ==
    LET rs == [i \in DOMAIN e.args |-> ResolveUnits(cols, e.args[i])]
    IN  /\ \A i \in DOMAIN rs : rs[i].ok /\ Homogeneous(cols, e.args[i])
        /\ HomogeneousNode(e, [i \in DOMAIN rs |-> rs[i].unit])

StatedAlike(cols, others) ==
    \A i \in DOMAIN cols, j \in DOMAIN others :
        cols[i].name = others[j].name => Even(<<cols[i].unit, others[j].unit>>)

HomogeneousStep(f, s) ==
    CASE s.verb \in {"filter", "derive"} -> Homogeneous(f.cols, s.expr)
      [] s.verb = "groupBy" -> \A k \in DOMAIN s.aggs : s.aggs[k].func # "stddev"
      [] s.verb = "pivot" -> ColUnit(f.cols, s.on) = {} /\ s.agg # "stddev"
      [] s.verb = "unpivot" -> Even([k \in DOMAIN s.vals |-> ColUnit(f.cols, s.vals[k])])
                                 /\ SharedUnit(f.cols, s.vals) = Stated([k \in DOMAIN s.vals |->
                                                                        ColUnit(f.cols, s.vals[k])])
      [] s.verb \in {"union", "intersect", "except", "join"} ->
            StatedAlike(f.cols, Source(Tables, s.source).cols)
      [] OTHER -> TRUE

----------------------------------------------------------------------------
(* The fold.                                                               *)

NoRows(f) == [f EXCEPT !.rows = <<>>]

\* Where the rows decide a column's type or a column's existence.
RowsDecide(f, s) ==
    \/ s.verb = "pivot"
    \/ /\ s.verb = "derive"
       /\ LET r == ResolveUnits(f.cols, s.expr)
          IN  r.ok /\ DerivedTypingIn(Env, f.cols, r.expr) = ByCells
    \/ /\ s.verb = "unpivot"
       /\ AllKnown(f.cols, s.vals)
       /\ UnpivotTyping([k \in DOMAIN s.vals |-> f.cols[ColIndex(f.cols, s.vals[k])].type])
            = ByCells

HasExpr(s) == s.verb \in {"filter", "derive"}

\* The list params are substituted before the pipeline is evaluated.
Bound(s) ==
    IF HasExpr(s) THEN [s EXCEPT !.expr = SubstituteListParams(ListEnv, s.expr)] ELSE s

StepOf(run, s) == IF run = "twin" /\ HasExpr(s) THEN [s EXCEPT !.expr = SwapExpr(s.expr)] ELSE s
TablesOf(run) == IF run = "twin" THEN OtherTables ELSE Tables

Init ==
    /\ \E t \in Inputs :
         frames = [own |-> ToFrame(Tables[t]), bare |-> NoRows(ToFrame(Tables[t])),
                   twin |-> Rescaled(ToFrame(Tables[t]))]
    /\ taken = 0

\* Where the rows decide, or a number's own size does, the other runs are taken
\* from this one's answer.
Compared(s, out) ==
    [own |-> out.own,
     bare |-> IF out.own.err = "" /\ RowsDecide(frame, s) THEN NoRows(out.own) ELSE out.bare,
     twin |-> IF HomogeneousStep(frame, s) THEN out.twin ELSE Rescaled(out.own)]

Take(n) ==
    /\ frame.err = ""
    /\ taken < MaxSteps
    /\ taken' = taken + 1
    /\ LET s == Bound(Steps[n])
       IN  frames' = Compared(s, [run \in Runs |->
                        EvalPipeline(TablesOf(run), frames[run], <<StepOf(run, s)>>, Env)])

\* The answer is published as a table, and read back as a source.
Publish ==
    /\ frame.err = ""
    /\ taken < MaxSteps
    /\ taken' = taken + 1
    /\ frames' = [run \in Runs |-> ToFrame(OfFrame(frames[run]))]

Next == Publish \/ \E n \in DOMAIN Steps : Take(n)

Spec == Init /\ [][Next]_vars

----------------------------------------------------------------------------
(* Properties.                                                             *)

\* Every row has a cell for every column, and every present cell belongs to its
\* column's type ("Every present value carries this type", dataframe.rs), whatever
\* verbs made the column: the type comes from the schema, the cells from the rows.
CellsFitTheirColumns ==
    \A r \in DOMAIN frame.rows :
        /\ DOMAIN frame.rows[r] = DOMAIN frame.cols
        /\ \A i \in DOMAIN frame.cols : Fits(frame.rows[r][i], frame.cols[i].type)

\* The names, types and units of the answer are known before a row is read: the
\* same steps over no rows answer the same schema, and what they refuse without a
\* row is refused with rows, for the same reason.
SchemaIgnoresRows ==
    /\ frame.err = "" => bare.err = "" /\ bare.cols = frame.cols
    /\ bare.err # "" => frame.err = bare.err

\* The units are sound: the same quantities written in other units go through the
\* same steps to the same quantities, in the other units, or to the same refusal.
UnitsAreSound == twin = Rescaled(frame)

\* A binding says the same whether it is read at evaluation or substituted before
\* it (params.rs's "bind, then ship").
Alike(answers) == answers[1] = answers[2]
SubstitutionIsEvaluation ==
    \A n \in DOMAIN Steps : HasExpr(Steps[n]) =>
        LET r == ResolveUnits(frame.cols, Bound(Steps[n]).expr)
            ways == << <<r.expr, Env>>, <<SubstituteParams(Env, r.expr), <<>> >> >>
        IN  r.ok => Alike([i \in 1..2 |-> EvalRows(frame, ways[i][1], ways[i][2])])

\* A sort's comparator is an order on every column a pipeline can make: any two
\* present cells compare, and the comparison is antisymmetric and transitive.
ColumnsAreOrdered ==
    \A i \in DOMAIN frame.cols :
        LET cells == Range(Present(Column(frame.rows, i)))
        IN  \A a, b, c \in cells :
                /\ CompareCells(a, b) # Incomparable
                /\ CompareCells(a, b) = -CompareCells(b, a)
                /\ CompareCells(a, b) # 1 /\ CompareCells(b, c) # 1 => CompareCells(a, c) # 1

\* The laws: pipelines over one frame, by their steps, and how their answers are
\* related.
GroupBy(keys, aggs) == [verb |-> "groupBy", keys |-> keys, aggs |-> aggs]
SumOf(of) == <<[name |-> "sum", func |-> "sum", of |-> of]>>
Pivot(index, on, of, agg) ==
    [verb |-> "pivot", index |-> <<index>>, on |-> on, values |-> of, agg |-> agg]
Unpivot(ids, vals) == [verb |-> "unpivot", ids |-> ids, vals |-> vals]
Window(key, func, of, alias) ==
    [verb |-> "window", partitionBy |-> <<key>>, orderBy |-> <<[col |-> of, dir |-> "desc"]>>,
     func |-> func, of |-> of, alias |-> alias]
Passing(e) == [verb |-> "filter", expr |-> e]
Law(name, runs) == [name |-> name, runs |-> runs]

DistinctLaw(names) == Law("distinct", << <<[verb |-> "distinct"]>>, <<GroupBy(names, <<>>)>> >>)
PivotLaw(key, on, of) ==
    Law("pivot", << <<Pivot(key, on, of, "sum")>>, <<GroupBy(<<key, on>>, SumOf(of))>> >>)
RunningLaw(key, of) ==
    Law("running", << <<Window(key, "rowNumber", of, "at"), Window(key, "cumulSum", of, "total")>>,
                      <<GroupBy(<<key>>, SumOf(of))>> >>)
MeltLaw(key, a, b) ==
    Law("melt", << <<[verb |-> "project", from |-> <<key, a, b>>, to |-> <<key, a, b>>]>>,
                   <<Unpivot(<<key>>, <<a, b>>), Pivot(key, "variable", "value", "first"),
                     [verb |-> "project", from |-> <<key, a, b>>, to |-> <<key, a, b>>]>> >>)
FilterLaw(e) ==
    Law("filter", << <<>>, <<Passing(e)>>, <<Passing(Node("Not", "", <<e>>))>>,
                     <<Passing(Node("IsNull", "", <<e>>))>> >>)

Numeric(cols) == {i \in DOMAIN cols : cols[i].type \in {"int", "float", "decimal"}}

\* The columns a melt can name in a cell: those whose name is a symbol.
Named(names) == {i \in 2 .. Len(names) : names[i] \in DOMAIN Rank}

\* The first column is the key the laws group by.
Laws(cols, names) ==
    {DistinctLaw(names)}
      \cup {RunningLaw(names[1], names[i]) : i \in Numeric(cols) \ {1}}
      \cup {PivotLaw(names[1], names[i], names[j]) : i \in 2 .. Len(names), j \in Numeric(cols)}
      \cup {MeltLaw(names[1], names[i], names[j]) : i, j \in Named(names)}
      \cup {FilterLaw(Bound(Steps[n]).expr) : n \in {n \in DOMAIN Steps : Steps[n].verb = "filter"}}

SameValue(a, b) == a = b \/ CompareCells(a, b) = 0

LawHolds(name, a) ==
    CASE name = "distinct" -> a[1].rows = a[2].rows
      [] name = "pivot" ->
            \A g \in Range(a[2].rows) : ~IsNull(g[2]) =>
                \E p \in Range(a[1].rows) :
                    /\ p[1] = g[1]
                    /\ p[ColIndex(a[1].cols, ColumnName(CellString(g[2])))] = g[3]
      [] name = "running" ->
            \A g \in Range(a[2].rows) :
                LET part == SelectSeq(a[1].rows, LAMBDA row : row[1] = g[1])
                IN  \E row \in Range(part) :
                        LET n == Len(row)
                        IN  /\ row[n - 1] = Int_(Len(part))
                            /\ Val(row[n]) = IF IsNull(g[2]) THEN Whole(0) ELSE AsNum(g[2])
      [] name = "melt" ->
            Len(a[1].rows) = Len(a[2].rows) =>
                \A r \in DOMAIN a[1].rows : \A k \in 1..3 :
                    SameValue(a[1].rows[r][k], a[2].rows[r][k])
      [] name = "filter" ->
            Len(a[1].rows) = Len(a[2].rows) + Len(a[3].rows) + Len(a[4].rows)

\* Where two verbs compute one thing they answer the same: grouping by every
\* column is Distinct; a pivot's cell is the sum of the group of its key and its
\* on value; the last running sum of a partition is the sum of its group; two
\* columns melted and pivoted back over a unique key hold the same values; and
\* each row passes one of a predicate, its negation and its being unknown.
Answered(name, answers) ==
    (\A i \in DOMAIN answers : answers[i].err = "") => LawHolds(name, answers)
VerbsAgree ==
    frame.cols # <<>> /\ ~Repeats(Names(frame.cols)) =>
        \A law \in Laws(frame.cols, Names(frame.cols)) :
            Answered(law.name, [i \in DOMAIN law.runs |->
                                  EvalPipeline(Tables, frame, law.runs[i], Env)])

============================================================================
