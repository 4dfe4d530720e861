---------------------------- MODULE MCGridEdits ----------------------------
(* The table, the ops and the two pipelines the runs edit with. *)
EXTENDS GridEdits

CONSTANT WithOdd   \* do the edits include those the codec and the table refuse?

I(n) == <<"int", n>>
S(x) == <<"str", x>>
T(x) == <<"timestamp", x>>

MCNames == {"id", "v", "at", "no"}
MCTexts == {"", "NaN", "1", "2", "3", "4", "a", "b", "c", "day", "tick", "EUR"}
MCDigits == [day |-> 0, tick |-> 3]

Ids(cells) == [name |-> "id", type |-> "str", cells |-> cells]
V(type, cells) == [name |-> "v", type |-> type, cells |-> cells]
At(cells) == [name |-> "at", type |-> "timestamp", cells |-> cells]

TableOf(cols) ==
  [schema |-> [i \in DOMAIN cols |->
      [name |-> cols[i].name, type |-> cols[i].type, meta |-> IF cols[i].name = "v" THEN "EUR" ELSE ""]],
   columns |-> cols]

FirstColumns == <<Ids(<<S("a"), S("b")>>), V("float", <<I("1"), NaN>>)>>
MCTables == {TableOf(FirstColumns), TableOf(<<>>)}

\* A pipeline that answers the rows the history began with, and one that is refused.
MCEval(p, t) ==
  IF p = "rows" THEN [ok |-> TRUE, table |-> TableOf(FirstColumns)] ELSE [ok |-> FALSE, table |-> t]

Cell(col, row, value) == [kind |-> "setCell", col |-> col, row |-> row, value |-> value]
Whole(col) == [kind |-> "setColumn", column |-> col]
Insert(i, col) == [kind |-> "insertColumn", index |-> i, column |-> col]
DropCol(name) == [kind |-> "removeColumn", name |-> name]
Rows(rows) == [kind |-> "appendRows", rows |-> rows]
Transform(p) == [kind |-> "applyTransform", pipeline |-> p]
In(col, value) == [col |-> col, value |-> value]

MCOps ==
  {Cell("id", 0, S("c")), Cell("id", 1, Null), Cell("v", 1, I("2")),
   Whole(Ids(<<S("b"), S("b")>>)), Whole(V("int", <<I("1"), I("2")>>)),
   Insert(9, At(<<T("day"), Null>>)), DropCol("id"),
   Rows(<<<<In("id", S("c")), In("v", I("3")), In("v", I("4"))>>>>),
   Transform("rows")}

OddOps ==
  {Cell("id", 7, S("c")), Cell("no", 0, Null), Cell("at", 1, T("tick")), Cell("v", 0, S("c")),
   Cell("id", -1, S("c")), Whole(V("int", <<I("1"), S("c")>>)), Insert(-1, V("float", <<>>)),
   Whole(Ids(<<S("b")>>)), Insert(1, At(<<T("tick"), Null>>)),
   Rows(<<<<In("no", Null)>>>>), Rows(<<<<In("id", I("1"))>>>>), Transform("reject")}

Edit(op) == [key |-> "rows", op |-> op, rowKeyField |-> KeyField]
MCEdits ==
  {Edit(op) : op \in MCOps}
    \cup (IF WithOdd
          THEN {Edit(op) : op \in OddOps}
               \cup {[key |-> "rows", op |-> Cell("v", 1, I("2"))],
                     [key |-> "", op |-> DropCol("id")],
                     [key |-> "rows", op |-> DropCol("id"), rowKeyField |-> ""],
                     [key |-> "rows", op |-> DropCol("id"), extra |-> "1"]}
          ELSE {})
=============================================================================
