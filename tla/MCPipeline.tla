----------------------------- MODULE MCPipeline -----------------------------
(* A table of readings over a float length, an int count and a decimal price *)
(* with a NaN and nulls, a second one of its shape to unite with, and a      *)
(* lookup table whose lengths are in decimetres and whose instants are       *)
(* spelled with and without a fraction.                                      *)
EXTENDS Pipeline

ColumnNames == <<"at", "d", "k", "n", "t", "u", "value", "variable", "x", "y">>
Symbols == <<" ", "-", "/">> \o Digit \o <<"NaN", "P", "Z", "d1", "d2", "false", "month", "p", "q",
             "true">>
             \o ColumnNames \o [i \in DOMAIN ColumnNames |-> ColumnNames[i] \o "_right"]
MCRank == [s \in Range(Symbols) |-> CHOOSE i \in DOMAIN Symbols : Symbols[i] = s]
MCCivil == [s \in {"d1", "d2"} |-> IF s = "d1" THEN <<2024, 2, 29>> ELSE <<2023, 3, 1>>]
MCLower == [s \in Range(Symbols) |-> IF s = "P" THEN "p" ELSE s]
MCUpper == [s \in Range(Symbols) |-> IF s = "p" THEN "P" ELSE s]
MCHostMath(func, xs) == Whole(xs[1][1])

MCAtoms == {"m", "dm", "s"}
MCDimension == [m |-> "length", dm |-> "length", s |-> "time"]
MCScale == [m |-> Whole(1), dm |-> <<1, 10>>, s |-> Whole(1)]
MCOther == [m |-> "dm", dm |-> "m", s |-> "s"]
Metre == [Dimensionless EXCEPT !["m"] = 1]
Decimetre == [Dimensionless EXCEPT !["dm"] = 1]

T(schema, rows) == OfFrame(Frame(schema, rows))
Sy(s) == Str(<<s>>)
F(n, d) == Float(Lowest(n, d))
D(n, d) == Decimal(Lowest(n, d))
ReadingSchema ==
    <<Entry("k", "str", {}), Entry("x", "float", {Metre}), Entry("n", "int", {}),
      Entry("d", "decimal", {})>>
MCTables ==
    [readings |->
        T(ReadingSchema, <<<<Sy("p"), F(3, 2), Int_(2), D(1, 2)>>,
                           <<Sy("q"), Float(NaN), Int_(-1), Null>>,
                           <<Sy("p"), Int_(1), Null, D(-3, 2)>>,
                           <<Sy("P"), Null, Int_(2), Int_(1)>>>>),
     more |->
        T(<<Entry("k", "str", {}), Entry("x", "float", {}), Entry("n", "decimal", {}),
            Entry("d", "int", {})>>,
          <<<<Sy("p"), F(3, 2), D(2, 1), Int_(1)>>, <<Null, Null, D(1, 2), Null>>>>),
     lookup |->
        T(<<Entry("k", "str", {}), Entry("x", "float", {Decimetre}), Entry("t", "timestamp", {}),
            Entry("y", "str", {})>>,
          <<<<Sy("p"), F(15, 1), Timestamp(<<"d1", "Z">>), Sy("d1")>>,
            <<Sy("p"), Null, Timestamp(<<"d1", "0", "Z">>), Sy("d2")>>,
            <<Sy("k"), F(5, 1), Null, Sy("1")>>>>)]
MCInputs == {"readings", "lookup"}

Col(n) == [op |-> "Col", f |-> "", args |-> <<>>, leaf |-> n]
Param(n) == [op |-> "Param", f |-> "", args |-> <<>>, leaf |-> n]
In(e, n) == [op |-> "InParam", f |-> "", args |-> <<e>>, leaf |-> n]
Two(op, a, b) == Node("Binary", op, <<a, b>>)
Fn(func, args) == Node("Apply", func, args)
Filter(e) == [verb |-> "filter", expr |-> e]
Derive(n, e) == [verb |-> "derive", name |-> n, expr |-> e]
Joined(how) == [verb |-> "join", source |-> "lookup", on |-> <<<<"k", "k">>>>, how |-> how]
With(verb, source) == [verb |-> verb, source |-> source]
Agg(n, func, of) == [name |-> n, func |-> func, of |-> of]
Over(func, of, alias) ==
    [verb |-> "window", partitionBy |-> <<"k">>,
     orderBy |-> <<[col |-> "x", dir |-> "asc"]>>, func |-> func, of |-> of, alias |-> alias]

MCSteps ==
    [unknownOrMany |-> Filter(Two("or", Two("gt", Col("n"), Param("lim")),
                                        Two("lt", Col("x"), Lit(Int_(2))))),
     listed |-> Filter(In(Col("k"), "keys")),
     pick |-> Filter(Node("InList", "", <<Col("d"), Lit(Int_(1)), Lit(Null)>>)),
     square |-> Derive("y", Two("mul", Col("x"), Col("x"))),
     ratio |-> Derive("u", Two("div", Col("x"), Col("y"))),
     convert |-> Derive("y", [op |-> "Convert", f |-> "", args |-> <<Col("x")>>,
                              leaf |-> Decimetre]),
     add |-> Derive("u", Two("add", Col("x"), Col("y"))),
     fill |-> Derive("y", Node("Coalesce", "", <<Col("y"), Col("x")>>)),
     mixed |-> Derive("u", Node("Case", "", <<Two("eq", Col("k"), Lit(Sy("p"))), Col("n"),
                                             Col("d")>>)),
     bound |-> Derive("u", Two("add", Param("lim"), Col("d"))),
     rounded |-> Derive("u", [op |-> "Rounded", f |-> "halfEven", args |-> <<Col("d")>>,
                              leaf |-> [param |-> "scale", lit |-> 0]]),
     quotient |-> Derive("u", [op |-> "Quotient", f |-> "halfUp",
                               args |-> <<Col("n"), Col("d")>>,
                               leaf |-> [param |-> "", lit |-> 1]]),
     power |-> Derive("y", Fn("pow", <<Col("n"), Lit(Int_(2))>>)),
     cube |-> Derive("y", Fn("pow", <<Col("x"), Lit(Int_(-1))>>)),
     text |-> Derive("y", Node("Cast", "str", <<Col("d")>>)),
     least |-> Derive("u", Fn("least", <<Col("n"), Col("d")>>)),
     name |-> Derive("y", Fn("concat", <<Fn("upper", <<Col("k")>>), Lit(Sy("1"))>>)),
     part |-> Derive("y", Fn("datePart", <<Node("Cast", "date", <<Col("y")>>), Lit(Sy("month"))>>)),
     trimmed |-> Derive("y", Fn("replace", <<Fn("trim", <<Col("k")>>), Lit(Sy("p")),
                                             Lit(Str(<<"q", "q">>))>>)),
     start |-> Derive("y", Fn("substr", <<Fn("concat", <<Col("k"), Col("n")>>), Lit(Int_(1)),
                                          Fn("length", <<Col("k")>>)>>)),
     floor |-> Derive("u", Fn("floor", <<Col("x")>>)),
     host |-> Derive("u", Fn("ln", <<Col("n")>>)),
     root |-> Derive("u", Fn("pow", <<Col("n"), Lit(F(1, 2))>>)),
     truth |-> Derive("u", Node("Cast", "bool", <<Col("n")>>)),
     whole |-> Derive("n", Node("Cast", "int", <<Col("d")>>)),
     starts |-> Filter(Two("and", Two("startsWith", Col("k"), Lit(Sy("p"))),
                                   Node("Not", "", <<Node("IsNull", "", <<Col("x")>>)>>))),
     days |-> Derive("n", Fn("dateDiffDays", <<Col("y"), Col("t")>>)),
     group |-> [verb |-> "groupBy", keys |-> <<"k">>,
                aggs |-> <<Agg("x", "sum", "x"), Agg("n", "count", "n"),
                           Agg("d", "max", "d")>>],
     spread |-> [verb |-> "groupBy", keys |-> <<"n">>,
                 aggs |-> <<Agg("k", "last", "k"), Agg("x", "stddev", "x"),
                            Agg("y", "mean", "d")>>],
     pivot |-> [verb |-> "pivot", index |-> <<"k">>, on |-> "n", values |-> "x", agg |-> "min"],
     melt |-> [verb |-> "unpivot", ids |-> <<"k", "x">>, vals |-> <<"n", "d">>],
     lengths |-> [verb |-> "unpivot", ids |-> <<"k", "t">>, vals |-> <<"x", "y">>],
     sorted |-> [verb |-> "sort", by |-> <<[col |-> "x", dir |-> "desc"],
                                           [col |-> "t", dir |-> "asc"]>>],
     distinct |-> [verb |-> "distinct"],
     second |-> [verb |-> "limit", offset |-> 1, n |-> 2],
     rank |-> Over("rank", "x", "w1"),
     running |-> Over("cumulSum", "d", "w2"),
     before |-> Over("lag", "x", "w3"),
     rolling |-> Over("rollingMean", "n", "w4"),
     rename |-> [verb |-> "project", from |-> <<"k", "n", "d">>, to |-> <<"k", "d", "n">>],
     inner |-> Joined("inner"),
     outer |-> Joined("outer"),
     union |-> With("union", "more"),
     both |-> With("intersect", "more"),
     except |-> With("except", "readings"),
     lost |-> With("union", "elsewhere")]
(* Rounding a decimal column in which a whole amount is written as an int. *)
MCRoundSteps ==
    [round |-> Derive("u", Fn("round", <<Col("d")>>))] @@ MCSteps
MCEnv == [lim |-> Int_(1), scale |-> Int_(0)]
MCListEnv == [keys |-> <<Sy("p"), Sy("k")>>]
=============================================================================
