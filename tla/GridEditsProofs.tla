------------------------- MODULE GridEditsProofs -------------------------
(***************************************************************************)
(* Theorems about the columnar ops and the edit history of GridEdits, for  *)
(* any tables, edits, capacity and instants: an op leaves a well-formed    *)
(* table well formed, and the op kept for it takes it back; the history's  *)
(* two lists never outgrow the capacity; its table stays well formed and   *)
(* no gesture is refused; it is the edit log that EditLog promises; and a  *)
(* client that takes its deltas holds its rows.                            *)
(***************************************************************************)
EXTENDS GridEdits, SequenceTheorems, TLAPS

(***************************************************************************)
(* The table.                                                              *)
(***************************************************************************)
KeepOther(name, kept, e) == IF e.name = name THEN kept ELSE Append(kept, e)
OtherFold == INSTANCE SequenceFolds WITH Op <- KeepOther

\* Taking a name out is the fold of SequenceFolds.
LEMMA WithoutIsFold == \A s, name : Without(s, name) = OtherFold!FoldOf(name, <<>>, s)
BY Zenon DEF Without, OtherFold!FoldOf, KeepOther, FoldLeft, MapThenFoldSet, Max,
             OtherFold!FoldLeft, OtherFold!MapThenFoldSet, OtherFold!Max

----------------------------------------------------------------------------
(* Members.                                                                *)

\* What a table is made of.
LEMMA TableMembers ==
  ASSUME NEW t \in Table
  PROVE  /\ t.schema \in Seq(SchemaEntry) /\ t.columns \in Seq(DataColumn)
         /\ t = [schema |-> t.schema, columns |-> t.columns]
BY DEF Table

\* What makes a table.
LEMMA IsTable ==
  ASSUME NEW schema \in Seq(SchemaEntry), NEW columns \in Seq(DataColumn)
  PROVE  [schema |-> schema, columns |-> columns] \in Table
BY DEF Table

\* What a column is made of.
LEMMA ColumnMembers ==
  ASSUME NEW c \in DataColumn
  PROVE  /\ c.name \in Name /\ c.type \in ColumnType /\ c.cells \in Seq(CellValue)
         /\ c = [name |-> c.name, type |-> c.type, cells |-> c.cells]
BY DEF DataColumn

\* What makes a column.
LEMMA IsColumn ==
  ASSUME NEW name \in Name, NEW type \in ColumnType, NEW cells \in Seq(CellValue)
  PROVE  [name |-> name, type |-> type, cells |-> cells] \in DataColumn
BY DEF DataColumn

\* The schema entry of a column describes it.
LEMMA EntryMembers ==
  ASSUME NEW c \in DataColumn
  PROVE  Entry(c) \in SchemaEntry /\ Entry(c).name = c.name /\ Entry(c).type = c.type
BY TextAssumption, ColumnMembers DEF Entry, SchemaEntry

\* Null is a cell.
LEMMA NullIsCell == Null \in CellValue
BY TextAssumption DEF Null, CellValue

\* What an op that was taken answers.
LEMMA DoneMembers == \A t : Done(t).ok = TRUE /\ Done(t).table = t
BY Zenon DEF Done

\* What an op that was refused answers.
LEMMA RefuseMembers == \A token : Refuse(token).ok = FALSE
BY Zenon DEF Refuse

----------------------------------------------------------------------------
(* What a well-formed table is.                                            *)

\* What its i-th column is like.
Sound(t, i) ==
  /\ t.columns[i].name = t.schema[i].name /\ t.columns[i].type = t.schema[i].type
  /\ \A j \in DOMAIN t.columns : t.columns[j].name = t.columns[i].name => j = i
  /\ Len(t.columns[i].cells) = RowCount(t)
  /\ ColumnFits(t.columns[i])

\* A table is well formed where each of its columns is sound.
LEMMA WellFormedIs ==
  ASSUME NEW t
  PROVE  WellFormed(t) <=> /\ Len(t.schema) = Len(t.columns)
                           /\ \A i \in DOMAIN t.columns : Sound(t, i)
<1>1. ASSUME NEW i \in DOMAIN t.columns
      PROVE  Named(t, t.columns[i].name) = {i}
               <=> \A j \in DOMAIN t.columns : t.columns[j].name = t.columns[i].name => j = i
  BY DEF Named
<1> QED
  BY <1>1, Zenon DEF WellFormed, Sound

\* The rows of a table that has columns are those of its first.
LEMMA RowCountIs ==
  ASSUME NEW t, t.columns \in Seq(DataColumn), NEW i \in DOMAIN t.columns
  PROVE  RowCount(t) = Len(t.columns[1].cells) /\ 1 \in DOMAIN t.columns /\ RowCount(t) \in Nat
<1>1. 1 \in DOMAIN t.columns /\ t.columns # <<>>
  OBVIOUS
<1>2. t.columns[1].cells \in Seq(CellValue)
  <2>1. t.columns[1] \in DataColumn
    BY <1>1
  <2> QED
    BY <2>1, ColumnMembers
<1> QED
  BY <1>1, <1>2 DEF RowCount

\* In a well-formed table the column a name finds is the only one of that name.
LEMMA OnlyColumn ==
  ASSUME NEW t \in Table, WellFormed(t), NEW i \in DOMAIN t.columns
  PROVE  /\ Named(t, t.columns[i].name) = {i} /\ Has(t, t.columns[i].name)
         /\ Position(t, t.columns[i].name) = i
         /\ Find(t, t.columns[i].name) = t.columns[i]
<1>1. Named(t, t.columns[i].name) = {i}
  BY DEF WellFormed
<1>2. Position(t, t.columns[i].name)
        = CHOOSE k \in {i} : \A j \in {i} : k <= j
  BY <1>1 DEF Position
<1>3. i \in Int
  BY TableMembers
<1>4. (CHOOSE k \in {i} : \A j \in {i} : k <= j) = i
  BY <1>3
<1> QED
  BY <1>1, <1>2, <1>4 DEF Has, Find

\* A name the table has is the name of a column.
LEMMA HasColumn ==
  ASSUME NEW t, NEW name, Has(t, name)
  PROVE  \E i \in DOMAIN t.columns : t.columns[i].name = name
BY DEF Has, Named

----------------------------------------------------------------------------
(* Taking the entries of a name out of a sequence, and putting one in.     *)

\* e stands at i in s, and no other of its name.
OnlyAt(s, name, i) == \A j \in 1 .. Len(s) : s[j].name = name <=> j = i

RemovedAt(s, i) == [j \in 1 .. Len(s) - 1 |-> IF j < i THEN s[j] ELSE s[j + 1]]

\* What taking out the i-th entry leaves.
LEMMA RemovedAtIs ==
  ASSUME NEW S, NEW s \in Seq(S), NEW i \in 1 .. Len(s)
  PROVE  /\ RemovedAt(s, i) \in Seq(S) /\ Len(RemovedAt(s, i)) = Len(s) - 1
         /\ \A j \in 1 .. Len(s) - 1 : RemovedAt(s, i)[j] = IF j < i THEN s[j] ELSE s[j + 1]
<1>1. Len(s) - 1 \in Nat /\ \A j \in 1 .. Len(s) - 1 : (IF j < i THEN s[j] ELSE s[j + 1]) \in S
  OBVIOUS
<1> QED
  BY <1>1 DEF RemovedAt

\* w is s with e put in at i.
IsInserted(w, S, s, i, e) ==
  /\ w \in Seq(S) /\ Len(w) = Len(s) + 1
  /\ \A j \in 1 .. Len(s) + 1 : w[j] = IF j < i THEN s[j] ELSE IF j = i THEN e ELSE s[j - 1]

\* What putting an entry in at i makes.
LEMMA InsertAtIs ==
  ASSUME NEW S, NEW s \in Seq(S), NEW i \in 1 .. Len(s) + 1, NEW e \in S
  PROVE  IsInserted(InsertAt(s, i, e), S, s, i, e)
<1> DEFINE a == SubSeq(s, 1, i - 1)
           b == SubSeq(s, i, Len(s))
<1>1. /\ a \in Seq(S) /\ Len(a) = i - 1 /\ \A j \in 1 .. i - 1 : a[j] = s[j]
      /\ b \in Seq(S) /\ Len(b) = Len(s) - i + 1 /\ \A j \in 1 .. Len(b) : b[j] = s[j + i - 1]
      /\ Len(s) \in Nat
  OBVIOUS
<1> HIDE DEF a, b
<1>2. /\ a \o <<e>> \in Seq(S) /\ Len(a \o <<e>>) = i
      /\ \A j \in 1 .. i : (a \o <<e>>)[j] = IF j < i THEN s[j] ELSE e
  BY <1>1
<1>3. PICK ae : ae = a \o <<e>>
  OBVIOUS
<1>4. /\ ae \o b \in Seq(S) /\ Len(ae \o b) = Len(s) + 1
      /\ \A j \in 1 .. Len(s) + 1 : (ae \o b)[j] = IF j <= i THEN ae[j] ELSE b[j - i]
  <2>1. ae \in Seq(S) /\ Len(ae) = i /\ b \in Seq(S) /\ Len(b) = Len(s) - i + 1
    BY <1>1, <1>2, <1>3
  <2>2. ae \o b \in Seq(S) /\ Len(ae \o b) = Len(ae) + Len(b)
        /\ \A j \in 1 .. Len(ae) + Len(b) : (ae \o b)[j] = IF j <= Len(ae) THEN ae[j] ELSE b[j - Len(ae)]
    BY <2>1
  <2> QED
    BY <1>1, <2>1, <2>2
<1>5. \A j \in 1 .. Len(s) + 1 :
        (ae \o b)[j] = IF j < i THEN s[j] ELSE IF j = i THEN e ELSE s[j - 1]
  <2> TAKE j \in 1 .. Len(s) + 1
  <2>1. CASE j <= i
    BY <1>2, <1>3, <1>4, <2>1
  <2>2. CASE ~(j <= i)
    <3>1. j - i \in 1 .. Len(b) /\ (j - i) + i - 1 = j - 1
      BY <1>1, <2>2
    <3>2. b[j - i] = s[j - 1]
      BY <1>1, <3>1
    <3> QED
      BY <1>1, <1>4, <2>2, <3>2
  <2> QED
    BY <2>1, <2>2
<1>6. InsertAt(s, i, e) = ae \o b
  BY <1>3, Zenon DEF InsertAt, a, b
<1> QED
  BY <1>4, <1>5, <1>6 DEF IsInserted

\* A name no entry has takes nothing out.
LEMMA WithoutAbsent ==
  ASSUME NEW S, NEW s \in Seq(S), NEW name, \A j \in 1 .. Len(s) : s[j].name # name
  PROVE  Without(s, name) = s
<1> DEFINE Absent(u) == \A j \in 1 .. Len(u) : u[j].name # name
           T == {u \in Seq(S) : Absent(u) => OtherFold!FoldOf(name, <<>>, u) = u}
<1>1. <<>> \in T
  BY OtherFold!FoldEmpty
<1>2. ASSUME NEW u \in T, NEW x \in S
      PROVE  Append(u, x) \in T
  <2>1. /\ Append(u, x) \in Seq(S) /\ u \in Seq(S)
        /\ Len(Append(u, x)) = Len(u) + 1 /\ Append(u, x)[Len(u) + 1] = x /\ Len(u) \in Nat
        /\ \A j \in 1 .. Len(u) : Append(u, x)[j] = u[j]
    OBVIOUS
  <2>2. ASSUME Absent(Append(u, x))
        PROVE  OtherFold!FoldOf(name, <<>>, Append(u, x)) = Append(u, x)
    <3>1. x.name # name /\ Absent(u)
      BY <2>1, <2>2
    <3>2. OtherFold!FoldOf(name, <<>>, u) = u
      BY <3>1
    <3>3. OtherFold!FoldOf(name, <<>>, Append(u, x)) = KeepOther(name, u, x)
      BY <2>1, <3>2, OtherFold!FoldAppend
    <3> QED
      BY <3>1, <3>3 DEF KeepOther
  <2> HIDE DEF Absent
  <2> QED
    BY <2>1, <2>2
<1> HIDE DEF T
<1>3. T = Seq(S)
  <2>1. T \in SUBSET Seq(S)
    BY DEF T
  <2> QED
    BY <1>1, <1>2, <2>1, OtherFold!SeqSetInduction
<1>4. Absent(s) => OtherFold!FoldOf(name, <<>>, s) = s
  BY <1>3 DEF T
<1> QED
  BY <1>4, WithoutIsFold

\* A name one entry has takes that one out.
LEMMA WithoutOne ==
  ASSUME NEW S, NEW s \in Seq(S), NEW name, NEW i \in 1 .. Len(s), OnlyAt(s, name, i)
  PROVE  Without(s, name) = RemovedAt(s, i)
<1> DEFINE T == {u \in Seq(S) : \A k \in 1 .. Len(u) : OnlyAt(u, name, k) =>
                                  OtherFold!FoldOf(name, <<>>, u) = RemovedAt(u, k)}
<1>1. <<>> \in T
  OBVIOUS
<1>2. ASSUME NEW u \in T, NEW x \in S
      PROVE  Append(u, x) \in T
  <2> DEFINE ux == Append(u, x)
  <2>1. /\ ux \in Seq(S) /\ u \in Seq(S) /\ Len(u) \in Nat
        /\ Len(ux) = Len(u) + 1 /\ ux[Len(u) + 1] = x
        /\ \A j \in 1 .. Len(u) : ux[j] = u[j]
    OBVIOUS
  <2>2. OtherFold!FoldOf(name, <<>>, ux) = KeepOther(name, OtherFold!FoldOf(name, <<>>, u), x)
    BY <2>1, OtherFold!FoldAppend
  <2> HIDE DEF ux
  <2>3. ASSUME NEW k \in 1 .. Len(ux), OnlyAt(ux, name, k)
        PROVE  OtherFold!FoldOf(name, <<>>, ux) = RemovedAt(ux, k)
    <3>0. RemovedAt(ux, k) \in Seq(S) /\ Len(RemovedAt(ux, k)) = Len(u)
          /\ \A j \in 1 .. Len(u) : RemovedAt(ux, k)[j] = IF j < k THEN ux[j] ELSE ux[j + 1]
      <4>1. Len(ux) - 1 = Len(u)
        BY <2>1
      <4> QED
        BY <2>1, <4>1, RemovedAtIs
    <3>1. CASE k = Len(u) + 1
      <4>1. x.name = name /\ \A j \in 1 .. Len(u) : u[j].name # name
        BY <2>1, <2>3, <3>1 DEF OnlyAt
      <4>2. OtherFold!FoldOf(name, <<>>, u) = u
        BY <2>1, <4>1, WithoutAbsent, WithoutIsFold
      <4>3. RemovedAt(ux, k) = u
        BY <2>1, <3>0, <3>1, SeqEqual
      <4> QED
        BY <2>2, <4>1, <4>2, <4>3 DEF KeepOther
    <3>2. CASE k \in 1 .. Len(u)
      <4>1. x.name # name /\ OnlyAt(u, name, k)
        BY <2>1, <2>3, <3>2 DEF OnlyAt
      <4>2. OtherFold!FoldOf(name, <<>>, u) = RemovedAt(u, k)
        BY <3>2, <4>1
      <4>3. /\ RemovedAt(u, k) \in Seq(S) /\ Len(RemovedAt(u, k)) = Len(u) - 1
            /\ \A j \in 1 .. Len(u) - 1 : RemovedAt(u, k)[j] = IF j < k THEN u[j] ELSE u[j + 1]
        BY <2>1, <3>2, RemovedAtIs
      <4>4. PICK r : r = RemovedAt(u, k)
        OBVIOUS
      <4>5. /\ Append(r, x) \in Seq(S) /\ Len(Append(r, x)) = Len(u)
            /\ Append(r, x)[Len(u)] = x
            /\ \A j \in 1 .. Len(u) - 1 : Append(r, x)[j] = r[j]
        BY <2>1, <4>3, <4>4
      <4>6. ASSUME NEW j \in 1 .. Len(u)
            PROVE  Append(r, x)[j] = RemovedAt(ux, k)[j]
        <5>1. CASE j = Len(u)
          <6>1. RemovedAt(ux, k)[Len(u)] = ux[Len(u) + 1]
            BY <2>1, <3>0, <3>2
          <6> QED
            BY <2>1, <4>5, <5>1, <6>1
        <5>2. CASE j # Len(u)
          <6>1. j \in 1 .. Len(u) - 1
            BY <2>1, <5>2
          <6> QED
            BY <2>1, <3>0, <3>2, <4>3, <4>4, <4>5, <6>1
        <5> QED
          BY <5>1, <5>2
      <4>7. Append(r, x) = RemovedAt(ux, k)
        BY <3>0, <4>5, <4>6, SeqEqual
      <4> QED
        BY <2>2, <4>1, <4>2, <4>4, <4>7 DEF KeepOther
    <3> QED
      BY <2>1, <3>1, <3>2
  <2> QED
    BY <2>1, <2>3 DEF ux
<1> HIDE DEF T
<1>3. T = Seq(S)
  <2>1. T \in SUBSET Seq(S)
    BY DEF T
  <2> QED
    BY <1>1, <1>2, <2>1, OtherFold!SeqSetInduction
<1>4. OtherFold!FoldOf(name, <<>>, s) = RemovedAt(s, i)
  BY <1>3 DEF T
<1> QED
  BY <1>4, WithoutIsFold

----------------------------------------------------------------------------
(* A column replaced by one of its name.                                   *)

\* A column put in the place of one of its name and length keeps the table well formed.
LEMMA ColumnReplaced ==
  ASSUME NEW t \in Table, WellFormed(t), NEW i \in DOMAIN t.columns,
         NEW col \in DataColumn, col.name = t.columns[i].name,
         Len(col.cells) = RowCount(t), ColumnFits(col)
  PROVE  /\ WithColumn(t, col) \in Table /\ WellFormed(WithColumn(t, col))
         /\ WithColumn(t, col).columns = [t.columns EXCEPT ![i] = col]
         /\ RowCount(WithColumn(t, col)) = RowCount(t)
<1> DEFINE schema == [j \in DOMAIN t.schema |->
                        IF t.schema[j].name = col.name /\ t.schema[j].type # col.type
                        THEN Entry(col) ELSE t.schema[j]]
           columns == [j \in DOMAIN t.columns |->
                         IF t.columns[j].name = col.name THEN col ELSE t.columns[j]]
           u == WithColumn(t, col)
<1>1. u = [schema |-> schema, columns |-> columns]
  BY DEF WithColumn
<1>2. t.schema \in Seq(SchemaEntry) /\ t.columns \in Seq(DataColumn)
      /\ DOMAIN t.columns = 1 .. Len(t.columns) /\ DOMAIN t.schema = 1 .. Len(t.schema)
      /\ Len(t.schema) \in Nat /\ Len(t.columns) \in Nat
  BY TableMembers
<1>3. Len(t.schema) = Len(t.columns) /\ \A j \in DOMAIN t.columns : Sound(t, j)
  BY WellFormedIs
<1>4. Entry(col) \in SchemaEntry /\ Entry(col).name = col.name /\ Entry(col).type = col.type
  BY EntryMembers
<1>5. schema \in Seq(SchemaEntry) /\ Len(schema) = Len(t.schema) /\ DOMAIN schema = DOMAIN t.schema
  <2>1. \A j \in 1 .. Len(t.schema) : schema[j] \in SchemaEntry
    BY <1>2, <1>4
  <2>2. schema \in [1 .. Len(t.schema) -> SchemaEntry]
    BY <1>2, <2>1
  <2> QED
    BY <1>2, <2>2
<1>6. columns \in Seq(DataColumn) /\ Len(columns) = Len(t.columns)
      /\ DOMAIN columns = DOMAIN t.columns
  <2>1. \A j \in 1 .. Len(t.columns) : columns[j] \in DataColumn
    BY <1>2
  <2>2. columns \in [1 .. Len(t.columns) -> DataColumn]
    BY <1>2, <2>1
  <2> QED
    BY <1>2, <2>2
<1>7. \A j \in DOMAIN t.columns : t.columns[j].name = col.name <=> j = i
  BY <1>3 DEF Sound
<1>8. columns[i] = col /\ \A j \in DOMAIN t.columns : j # i => columns[j] = t.columns[j]
  BY <1>7
<1>9. \A j \in DOMAIN t.columns :
        schema[j].name = columns[j].name /\ schema[j].type = columns[j].type
  <2> TAKE j \in DOMAIN t.columns
  <2>1. j \in DOMAIN t.schema /\ t.schema[j].name = t.columns[j].name
        /\ t.schema[j].type = t.columns[j].type
    BY <1>2, <1>3 DEF Sound
  <2> HIDE DEF columns
  <2>2. CASE j = i
    BY <1>4, <1>8, <2>1, <2>2
  <2>3. CASE j # i
    BY <1>7, <1>8, <2>1, <2>3
  <2> QED
    BY <2>2, <2>3
<1>10. columns = [t.columns EXCEPT ![i] = col]
  BY <1>2, <1>7
<1> HIDE DEF schema, columns, u
<1>11. u.columns = columns /\ u.schema = schema /\ u \in Table
  BY <1>1, <1>5, <1>6, IsTable
<1>12. RowCount(u) = RowCount(t)
  <2>1. RowCount(t) = Len(t.columns[1].cells) /\ 1 \in DOMAIN t.columns
    BY <1>2, RowCountIs
  <2>2. RowCount(u) = Len(columns[1].cells)
    BY <1>6, <1>11, <2>1, RowCountIs
  <2>3. CASE i = 1
    BY <1>8, <2>2, <2>3
  <2>4. CASE i # 1
    BY <1>8, <2>1, <2>2, <2>4
  <2> QED
    BY <2>3, <2>4
<1>13. \A j \in DOMAIN u.columns : Sound(u, j)
  <2>0. \A j \in DOMAIN t.columns : columns[j].name = t.columns[j].name
    BY <1>8
  <2> SUFFICES ASSUME NEW j \in DOMAIN t.columns
               PROVE  Sound(u, j)
    BY <1>6, <1>11
  <2>1. u.columns[j].name = u.schema[j].name /\ u.columns[j].type = u.schema[j].type
    BY <1>9, <1>11
  <2>2. \A k \in DOMAIN u.columns : u.columns[k].name = u.columns[j].name => k = j
    BY <2>0, <1>3, <1>6, <1>11 DEF Sound
  <2>3. Len(u.columns[j].cells) = RowCount(u) /\ ColumnFits(u.columns[j])
    BY <1>3, <1>8, <1>11, <1>12 DEF Sound
  <2> QED
    BY <2>1, <2>2, <2>3 DEF Sound
<1>14. WellFormed(u)
  BY <1>3, <1>5, <1>6, <1>11, <1>13, WellFormedIs
<1> QED
  BY <1>10, <1>11, <1>12, <1>14 DEF u

\* Replacing it by the old one puts the columns back.
LEMMA ReplacedBack ==
  ASSUME NEW t \in Table, WellFormed(t), NEW i \in DOMAIN t.columns,
         NEW col \in DataColumn, col.name = t.columns[i].name,
         Len(col.cells) = RowCount(t), ColumnFits(col)
  PROVE  WithColumn(WithColumn(t, col), t.columns[i]).columns = t.columns
<1>1. PICK u : u = WithColumn(t, col)
  OBVIOUS
<1>2. u \in Table /\ WellFormed(u) /\ u.columns = [t.columns EXCEPT ![i] = col]
      /\ RowCount(u) = RowCount(t)
  BY <1>1, ColumnReplaced
<1>3. PICK c \in DataColumn : c = t.columns[i]
  BY TableMembers
<1>4. i \in DOMAIN u.columns /\ u.columns[i] = col
  BY <1>2
<1>5. Len(c.cells) = RowCount(u) /\ ColumnFits(c) /\ c.name = u.columns[i].name
  BY <1>2, <1>3, <1>4, WellFormedIs DEF Sound
<1>6. WithColumn(u, c).columns = [u.columns EXCEPT ![i] = c]
  BY <1>2, <1>4, <1>5, ColumnReplaced
<1>7. [[t.columns EXCEPT ![i] = col] EXCEPT ![i] = t.columns[i]] = t.columns
  BY TableMembers
<1> QED
  BY <1>1, <1>2, <1>3, <1>6, <1>7

----------------------------------------------------------------------------
(* A cell edit.                                                            *)

\* Writing a cell and writing the old one back leaves the cells as they were.
LEMMA CellsWritten ==
  ASSUME NEW Cells, NEW cs \in Seq(Cells), NEW r \in DOMAIN cs, NEW v \in Cells
  PROVE  /\ [cs EXCEPT ![r] = v] \in Seq(Cells)
         /\ Len([cs EXCEPT ![r] = v]) = Len(cs)
         /\ [[cs EXCEPT ![r] = v] EXCEPT ![r] = cs[r]] = cs
<1>1. Len(cs) \in Nat /\ DOMAIN cs = 1 .. Len(cs) /\ cs \in [1 .. Len(cs) -> Cells]
  OBVIOUS
<1>2. [cs EXCEPT ![r] = v] \in [1 .. Len(cs) -> Cells]
  BY <1>1
<1>3. [cs EXCEPT ![r] = v] \in Seq(Cells)
  BY <1>1, <1>2
<1>4. Len([cs EXCEPT ![r] = v]) = Len(cs)
  BY <1>1, <1>2, <1>3
<1>5. [[cs EXCEPT ![r] = v] EXCEPT ![r] = cs[r]] = cs
  BY <1>1, Zenon
<1> QED
  BY <1>3, <1>4, <1>5

\* A column with one cell written, member by member.
Written(c, r, v) == [c EXCEPT !.cells[r] = v]

\* A cell written keeps a column a column.
LEMMA ColumnWritten ==
  ASSUME NEW Names, NEW Types, NEW Cells,
         NEW c \in [name : Names, type : Types, cells : Seq(Cells)],
         NEW r \in DOMAIN c.cells, NEW v \in Cells
  PROVE  /\ Written(c, r, v)
              = [name |-> c.name, type |-> c.type, cells |-> [c.cells EXCEPT ![r] = v]]
         /\ Written(c, r, v) \in [name : Names, type : Types, cells : Seq(Cells)]
<1> DEFINE x == [c.cells EXCEPT ![r] = v]
<1>1. c = [name |-> c.name, type |-> c.type, cells |-> c.cells]
      /\ c.name \in Names /\ c.type \in Types /\ c.cells \in Seq(Cells)
  OBVIOUS
<1>2. x \in Seq(Cells)
  BY <1>1, CellsWritten
<1>3. [c EXCEPT !.cells[r] = v] = [c EXCEPT !.cells = x]
  OBVIOUS
<1> HIDE DEF x
<1>4. [c EXCEPT !.cells = x] = [name |-> c.name, type |-> c.type, cells |-> x]
  BY <1>1
<1>5. Written(c, r, v) = [name |-> c.name, type |-> c.type, cells |-> x]
  BY <1>3, <1>4, Zenon DEF Written
<1>6. [name |-> c.name, type |-> c.type, cells |-> x]
        \in [name : Names, type : Types, cells : Seq(Cells)]
  BY <1>1, <1>2
<1> QED
  BY <1>5, <1>6 DEF x

\* The old cell written back gives the old column.
LEMMA WrittenBack ==
  ASSUME NEW Names, NEW Types, NEW Cells,
         NEW c \in [name : Names, type : Types, cells : Seq(Cells)],
         NEW r \in DOMAIN c.cells, NEW v \in Cells
  PROVE  Written(Written(c, r, v), r, c.cells[r]) = c
<1>1. PICK d : d = Written(c, r, v)
  OBVIOUS
<1>2. PICK w : w = c.cells[r]
  OBVIOUS
<1>3. d \in [name : Names, type : Types, cells : Seq(Cells)]
  BY <1>1, ColumnWritten
<1>4. d = [name |-> c.name, type |-> c.type, cells |-> [c.cells EXCEPT ![r] = v]]
  BY <1>1, ColumnWritten
<1>5. c.cells \in Seq(Cells) /\ w \in Cells
  BY <1>2
<1>6. r \in DOMAIN d.cells
  BY <1>4, <1>5, CellsWritten
<1>7. [d.cells EXCEPT ![r] = w] = c.cells
  BY <1>2, <1>4, <1>5, CellsWritten
<1>8. Written(d, r, w) = [name |-> d.name, type |-> d.type, cells |-> [d.cells EXCEPT ![r] = w]]
  <2>1. w \in Cells
    BY <1>5
  <2> QED
    BY <2>1, <1>3, <1>6, ColumnWritten
<1>9. c = [name |-> c.name, type |-> c.type, cells |-> c.cells]
  OBVIOUS
<1>10. Written(d, r, w) = c
  BY <1>4, <1>7, <1>8, <1>9
<1> QED
  BY <1>1, <1>2, <1>10, Zenon

\* The same of a column of a table.
LEMMA ColumnCellWritten ==
  ASSUME NEW c \in DataColumn, NEW r \in DOMAIN c.cells, NEW v \in CellValue
  PROVE  /\ Written(c, r, v) \in DataColumn
         /\ Written(c, r, v).name = c.name /\ Written(c, r, v).type = c.type
         /\ Written(c, r, v).cells = [c.cells EXCEPT ![r] = v]
         /\ Len(Written(c, r, v).cells) = Len(c.cells)
         /\ c.cells[r] \in CellValue
         /\ Written(Written(c, r, v), r, c.cells[r]) = c
<1>1. c \in [name : Name, type : ColumnType, cells : Seq(CellValue)] /\ c.cells \in Seq(CellValue)
  BY ColumnMembers DEF DataColumn
<1>2. Written(c, r, v) = [name |-> c.name, type |-> c.type, cells |-> [c.cells EXCEPT ![r] = v]]
  BY <1>1, ColumnWritten
<1>3. Written(c, r, v) \in [name : Name, type : ColumnType, cells : Seq(CellValue)]
  BY <1>1, ColumnWritten
<1>4. Written(Written(c, r, v), r, c.cells[r]) = c
  BY <1>1, WrittenBack
<1>5. Len([c.cells EXCEPT ![r] = v]) = Len(c.cells) /\ c.cells[r] \in CellValue
  BY <1>1, CellsWritten
<1> QED
  BY <1>2, <1>3, <1>4, <1>5 DEF DataColumn

\* A cell edit a well-formed table takes replaces a column by one with the cell in it.
LEMMA SetCellTakes ==
  ASSUME NEW t \in Table, WellFormed(t),
         NEW op, op.row \in Int, op.value \in CellValue, SetCell(op, t).ok
  PROVE  \E i \in DOMAIN t.columns :
           LET col == Written(t.columns[i], op.row + 1, op.value)
           IN  /\ t.columns[i] \in DataColumn /\ t.columns[i].name = op.col
               /\ op.row \in 0 .. RowCount(t) - 1 /\ op.row + 1 \in DOMAIN t.columns[i].cells
               /\ col \in DataColumn /\ col.name = t.columns[i].name /\ col.type = t.columns[i].type
               /\ Len(col.cells) = RowCount(t) /\ ColumnFits(col)
               /\ SetCell(op, t) = Done(WithColumn(t, col))
               /\ Find(t, op.col) = t.columns[i]
<1>1. /\ Has(t, op.col) /\ op.row \in 0 .. RowCount(t) - 1
      /\ CellFits(Find(t, op.col).type, op.value)
  BY RefuseMembers DEF SetCell
<1>2. PICK i \in DOMAIN t.columns : t.columns[i].name = op.col
  BY <1>1, HasColumn
<1>3. PICK c \in DataColumn : c = t.columns[i]
  BY TableMembers
<1>4. Find(t, op.col) = c
  BY <1>2, <1>3, OnlyColumn
<1>5. Len(c.cells) = RowCount(t) /\ ColumnFits(c)
  BY <1>3, WellFormedIs DEF Sound
<1>6. PICK r : r = op.row + 1
  OBVIOUS
<1>7. PICK v \in CellValue : v = op.value
  OBVIOUS
<1>8. r \in DOMAIN c.cells
  <2>1. c.cells \in Seq(CellValue)
    BY ColumnMembers
  <2>2. RowCount(t) \in Nat
    BY <1>5, <2>1
  <2> QED
    BY <1>1, <1>5, <1>6, <2>1, <2>2
<1> DEFINE col == Written(c, r, v)
<1>9. /\ col \in DataColumn /\ col.name = c.name /\ col.type = c.type
      /\ col.cells = [c.cells EXCEPT ![r] = v] /\ Len(col.cells) = Len(c.cells)
  BY <1>8, ColumnCellWritten
<1>10. ColumnFits(col)
  <2> HIDE DEF col
  <2>1. CellFits(c.type, v)
    BY <1>1, <1>4, <1>7
  <2>2. \A k \in DOMAIN c.cells : CellFits(c.type, c.cells[k])
    BY <1>5 DEF ColumnFits
  <2>3. c.cells \in Seq(CellValue)
    BY ColumnMembers
  <2>4. DOMAIN col.cells = DOMAIN c.cells
        /\ \A k \in DOMAIN c.cells : col.cells[k] = IF k = r THEN v ELSE c.cells[k]
    BY <1>9, <2>3
  <2> QED
    BY <1>9, <2>1, <2>2, <2>4 DEF ColumnFits
<1>11. SetCell(op, t) = Done(WithColumn(t, col))
  BY <1>1, <1>4, <1>6, <1>7, Zenon DEF SetCell, Written
<1> HIDE DEF col
<1>12. col = Written(t.columns[i], op.row + 1, op.value)
  BY <1>3, <1>6, <1>7 DEF col
<1> QED
  BY <1>1, <1>2, <1>3, <1>4, <1>5, <1>6, <1>8, <1>9, <1>10, <1>11, <1>12

\* A cell edit that applies keeps the table well formed.
LEMMA SetCellKeeps ==
  ASSUME NEW t \in Table, WellFormed(t),
         NEW op, op.row \in Int, op.value \in CellValue, SetCell(op, t).ok
  PROVE  SetCell(op, t).table \in Table /\ WellFormed(SetCell(op, t).table)
<1>1. PICK i \in DOMAIN t.columns :
        LET col == Written(t.columns[i], op.row + 1, op.value)
        IN  /\ col \in DataColumn /\ col.name = t.columns[i].name
            /\ Len(col.cells) = RowCount(t) /\ ColumnFits(col)
            /\ SetCell(op, t) = Done(WithColumn(t, col))
  BY SetCellTakes
<1>2. PICK col \in DataColumn : col = Written(t.columns[i], op.row + 1, op.value)
  BY <1>1
<1>3. /\ col.name = t.columns[i].name /\ Len(col.cells) = RowCount(t) /\ ColumnFits(col)
      /\ SetCell(op, t) = Done(WithColumn(t, col))
  BY <1>1, <1>2
<1>4. WithColumn(t, col) \in Table /\ WellFormed(WithColumn(t, col))
  BY <1>3, ColumnReplaced
<1> QED
  BY <1>3, <1>4, DoneMembers

\* A cell edit a well-formed table takes is one its inverse takes back.
LEMMA SetCellTakenBack ==
  ASSUME NEW t \in Table, WellFormed(t),
         NEW op \in [kind : {"setCell"}, col : Name, row : Int, value : CellValue],
         SetCell(op, t).ok, NEW inv, inv = [op EXCEPT !.value = Find(t, op.col).cells[op.row + 1]]
  PROVE  /\ inv \in [kind : {"setCell"}, col : Name, row : Int, value : CellValue]
         /\ SetCell(inv, SetCell(op, t).table).ok
         /\ SetCell(inv, SetCell(op, t).table).table.columns = t.columns
<1>1. op.row \in Int /\ op.value \in CellValue
  OBVIOUS
<1>2. PICK i \in DOMAIN t.columns :
           LET col == Written(t.columns[i], op.row + 1, op.value)
           IN  /\ t.columns[i] \in DataColumn /\ t.columns[i].name = op.col
               /\ op.row \in 0 .. RowCount(t) - 1 /\ op.row + 1 \in DOMAIN t.columns[i].cells
               /\ col \in DataColumn /\ col.name = t.columns[i].name /\ col.type = t.columns[i].type
               /\ Len(col.cells) = RowCount(t) /\ ColumnFits(col)
               /\ SetCell(op, t) = Done(WithColumn(t, col))
               /\ Find(t, op.col) = t.columns[i]
  BY <1>1, SetCellTakes
<1>3. PICK c \in DataColumn : c = t.columns[i]
  BY <1>2
<1>4. PICK r : r = op.row + 1
  OBVIOUS
<1>5. PICK v \in CellValue : v = op.value
  OBVIOUS
<1>6. PICK col \in DataColumn : col = Written(c, r, v)
  BY <1>2, <1>3, <1>4, <1>5
<1>7. /\ r \in DOMAIN c.cells /\ col.name = c.name /\ col.type = c.type /\ Len(col.cells) = RowCount(t)
      /\ ColumnFits(col) /\ SetCell(op, t) = Done(WithColumn(t, col))
  BY <1>2, <1>3, <1>4, <1>5, <1>6
<1>8. PICK u : u = WithColumn(t, col)
  OBVIOUS
<1>9. u \in Table /\ WellFormed(u) /\ u.columns = [t.columns EXCEPT ![i] = col]
      /\ RowCount(u) = RowCount(t)
  BY <1>3, <1>7, <1>8, ColumnReplaced
<1>10. /\ c.cells[r] \in CellValue /\ col.type = c.type /\ Written(col, r, c.cells[r]) = c
  <2>1. r \in DOMAIN c.cells /\ c \in DataColumn /\ v \in CellValue
    BY <1>3, <1>5, <1>7
  <2>2. c.cells[r] \in CellValue
    BY <2>1, ColumnCellWritten
  <2>3. Written(Written(c, r, v), r, c.cells[r]) = c
    BY <2>1, ColumnCellWritten
  <2> QED
    BY <1>6, <1>7, <2>2, <2>3
<1>11. /\ inv \in [kind : {"setCell"}, col : Name, row : Int, value : CellValue]
       /\ inv.row = op.row /\ inv.col = op.col /\ inv.value = c.cells[r]
  BY <1>2, <1>3, <1>4, <1>10
<1>12. u.columns[i] = col /\ i \in DOMAIN u.columns
  BY <1>9
<1>13. Has(u, op.col) /\ Find(u, op.col) = col
  BY <1>2, <1>3, <1>7, <1>9, <1>12, OnlyColumn
<1>14. CellFits(col.type, c.cells[r])
  <2>1. ColumnFits(c)
    BY <1>3, WellFormedIs DEF Sound
  <2> QED
    BY <1>7, <1>10, <2>1 DEF ColumnFits
<1>15. SetCell(inv, u) = Done(WithColumn(u, c))
  <2>1. inv.row \in 0 .. RowCount(u) - 1
    BY <1>2, <1>9, <1>11
  <2>2. [col EXCEPT !.cells[r] = c.cells[r]] = c
    BY <1>10, Zenon DEF Written
  <2> QED
    BY <1>4, <1>11, <1>13, <1>14, <2>1, <2>2, Zenon DEF SetCell
<1>16. WithColumn(u, c).columns = t.columns
  BY <1>3, <1>7, <1>8, ReplacedBack
<1> QED
  BY <1>7, <1>8, <1>11, <1>15, <1>16, DoneMembers

----------------------------------------------------------------------------
(* A column edit.                                                          *)

\* A column edit that applies is taken back by the column that was there.
LEMMA SetColumnTakenBack ==
  ASSUME NEW t \in Table, WellFormed(t),
         NEW op \in [kind : {"setColumn"}, column : DataColumn], ColumnFits(op.column),
         SetColumn(op, t).ok, NEW inv, inv = [op EXCEPT !.column = Find(t, op.column.name)]
  PROVE  /\ SetColumn(op, t).table \in Table /\ WellFormed(SetColumn(op, t).table)
         /\ inv \in [kind : {"setColumn"}, column : DataColumn] /\ ColumnFits(inv.column)
         /\ SetColumn(inv, SetColumn(op, t).table).ok
         /\ SetColumn(inv, SetColumn(op, t).table).table.columns = t.columns
<1>1. PICK col \in DataColumn : col = op.column
  OBVIOUS
<1>2. Has(t, col.name) /\ Len(col.cells) = RowCount(t) /\ SetColumn(op, t) = Done(WithColumn(t, col))
  BY <1>1, RefuseMembers, Zenon DEF SetColumn
<1>3. PICK i \in DOMAIN t.columns : t.columns[i].name = col.name
  BY <1>2, HasColumn
<1>4. PICK c \in DataColumn : c = t.columns[i]
  BY TableMembers
<1>5. Find(t, col.name) = c /\ c.name = col.name
  BY <1>3, <1>4, OnlyColumn
<1>6. PICK u : u = WithColumn(t, col)
  OBVIOUS
<1>7. u \in Table /\ WellFormed(u) /\ u.columns = [t.columns EXCEPT ![i] = col]
      /\ RowCount(u) = RowCount(t)
  BY <1>1, <1>2, <1>3, <1>6, ColumnReplaced
<1>8. inv \in [kind : {"setColumn"}, column : DataColumn] /\ inv.column = c
  BY <1>1, <1>4, <1>5
<1>9. ColumnFits(c) /\ Len(c.cells) = RowCount(t)
  BY <1>4, WellFormedIs DEF Sound
<1>10. Has(u, c.name)
  <2>1. i \in DOMAIN u.columns /\ u.columns[i] = col
    BY <1>7
  <2> QED
    BY <1>5, <1>7, <2>1, OnlyColumn
<1>11. SetColumn(inv, u) = Done(WithColumn(u, c))
  BY <1>7, <1>8, <1>9, <1>10, Zenon DEF SetColumn
<1>12. WithColumn(u, c).columns = t.columns
  BY <1>1, <1>2, <1>3, <1>4, <1>6, ReplacedBack
<1> QED
  BY <1>2, <1>6, <1>7, <1>8, <1>9, <1>11, <1>12, DoneMembers

----------------------------------------------------------------------------
(* Columns put in and taken out.                                           *)

\* Columns that a schema describes and that have n rows each.
Fitting(schema, columns, n) ==
  /\ schema \in Seq(SchemaEntry) /\ columns \in Seq(DataColumn) /\ Len(schema) = Len(columns)
  /\ \A i \in 1 .. Len(columns) :
       /\ columns[i].name = schema[i].name /\ columns[i].type = schema[i].type
       /\ \A j \in 1 .. Len(columns) : columns[j].name = columns[i].name => j = i
       /\ Len(columns[i].cells) = n /\ ColumnFits(columns[i])

\* Columns that fit make a table that is well formed.
LEMMA WellFormedFrom ==
  ASSUME NEW schema, NEW columns, NEW n, Fitting(schema, columns, n),
         NEW u, u = [schema |-> schema, columns |-> columns]
  PROVE  u \in Table /\ WellFormed(u) /\ (columns # <<>> => RowCount(u) = n)
<1>1. /\ u \in Table /\ u.schema = schema /\ u.columns = columns
      /\ DOMAIN columns = 1 .. Len(columns) /\ Len(schema) = Len(columns)
      /\ columns \in Seq(DataColumn)
  BY IsTable DEF Fitting
<1>2. ASSUME NEW i \in DOMAIN columns
      PROVE  RowCount(u) = n /\ Sound(u, i)
  <2>1. RowCount(u) = Len(columns[1].cells) /\ 1 \in DOMAIN columns
    BY <1>1, <1>2, RowCountIs
  <2>2. RowCount(u) = n
    BY <1>1, <2>1 DEF Fitting
  <2> QED
    BY <1>1, <2>2 DEF Sound, Fitting
<1>3. columns # <<>> => 1 \in DOMAIN columns
  BY <1>1
<1> QED
  BY <1>1, <1>2, <1>3, WellFormedIs

\* What is put in at i and taken out again leaves the sequence, and the other way round.
LEMMA InsertedRemoved ==
  ASSUME NEW S, NEW s \in Seq(S), NEW e \in S, NEW i \in 1 .. Len(s) + 1
  PROVE  RemovedAt(InsertAt(s, i, e), i) = s
<1>1. PICK w : w = InsertAt(s, i, e)
  OBVIOUS
<1>2. w \in Seq(S) /\ Len(w) = Len(s) + 1 /\ Len(s) \in Nat
      /\ \A j \in 1 .. Len(s) + 1 : w[j] = IF j < i THEN s[j] ELSE IF j = i THEN e ELSE s[j - 1]
  BY <1>1, InsertAtIs DEF IsInserted
<1>3. i \in 1 .. Len(w)
  BY <1>2
<1>4. /\ RemovedAt(w, i) \in Seq(S) /\ Len(RemovedAt(w, i)) = Len(w) - 1
      /\ \A j \in 1 .. Len(w) - 1 : RemovedAt(w, i)[j] = IF j < i THEN w[j] ELSE w[j + 1]
  BY <1>2, <1>3, RemovedAtIs
<1>5. Len(w) - 1 = Len(s)
  BY <1>2
<1>6. ASSUME NEW j \in 1 .. Len(s)
      PROVE  RemovedAt(w, i)[j] = s[j]
  <2>1. j + 1 \in 1 .. Len(s) + 1 /\ (j + 1) - 1 = j /\ j \in 1 .. Len(s) + 1
    BY <1>2
  <2>2. CASE j < i
    BY <1>2, <1>4, <1>5, <2>1, <2>2
  <2>3. CASE ~(j < i)
    <3>1. ~(j + 1 < i) /\ j + 1 # i
      BY <1>2, <2>3
    <3> QED
      BY <1>2, <1>4, <1>5, <2>1, <2>3, <3>1
  <2> QED
    BY <2>2, <2>3
<1>7. RemovedAt(w, i) = s
  BY <1>4, <1>5, <1>6, SeqEqual
<1> QED
  BY <1>1, <1>7

\* Putting an entry back where it was taken out gives the sequence.
LEMMA RemovedInserted ==
  ASSUME NEW S, NEW s \in Seq(S), NEW i \in 1 .. Len(s)
  PROVE  InsertAt(RemovedAt(s, i), i, s[i]) = s
<1>1. PICK w : w = RemovedAt(s, i)
  OBVIOUS
<1>2. w \in Seq(S) /\ Len(w) = Len(s) - 1 /\ Len(s) \in Nat
      /\ \A j \in 1 .. Len(s) - 1 : w[j] = IF j < i THEN s[j] ELSE s[j + 1]
  BY <1>1, RemovedAtIs
<1>3. i \in 1 .. Len(w) + 1 /\ Len(w) + 1 = Len(s)
  BY <1>2
<1>4. PICK e \in S : e = s[i]
  OBVIOUS
<1>5. /\ InsertAt(w, i, e) \in Seq(S) /\ Len(InsertAt(w, i, e)) = Len(w) + 1
      /\ \A j \in 1 .. Len(w) + 1 :
           InsertAt(w, i, e)[j] = IF j < i THEN w[j] ELSE IF j = i THEN e ELSE w[j - 1]
  BY <1>2, <1>3, InsertAtIs DEF IsInserted
<1>6. ASSUME NEW j \in 1 .. Len(s)
      PROVE  InsertAt(w, i, e)[j] = s[j]
  <2>1. CASE j < i
    <3>1. j \in 1 .. Len(s) - 1
      BY <1>2, <2>1
    <3> QED
      BY <1>2, <1>3, <1>5, <2>1, <3>1
  <2>2. CASE j = i
    BY <1>3, <1>4, <1>5, <2>2
  <2>3. CASE ~(j < i) /\ j # i
    <3>1. j - 1 \in 1 .. Len(s) - 1 /\ ~(j - 1 < i) /\ (j - 1) + 1 = j
      BY <1>2, <2>3
    <3> QED
      BY <1>2, <1>3, <1>5, <2>3, <3>1
  <2> QED
    BY <2>1, <2>2, <2>3
<1>7. InsertAt(w, i, e) = s
  BY <1>2, <1>3, <1>5, <1>6, SeqEqual
<1> QED
  BY <1>1, <1>4, <1>7

\* A column put into a well-formed table, at any place.
LEMMA ColumnInserted ==
  ASSUME NEW t \in Table, WellFormed(t), NEW col \in DataColumn, ColumnFits(col),
         ~Has(t, col.name), t.columns # <<>> => Len(col.cells) = RowCount(t),
         NEW i \in 1 .. Len(t.columns) + 1,
         NEW u, u = [schema |-> InsertAt(t.schema, i, Entry(col)),
                     columns |-> InsertAt(t.columns, i, col)]
  PROVE  /\ u \in Table /\ WellFormed(u)
         /\ u.columns = InsertAt(t.columns, i, col)
         /\ Without(u.columns, col.name) = t.columns
<1> DEFINE n == Len(t.columns)
           schema == InsertAt(t.schema, i, Entry(col))
           columns == InsertAt(t.columns, i, col)
<1>1. t.schema \in Seq(SchemaEntry) /\ t.columns \in Seq(DataColumn)
      /\ Len(t.schema) = n /\ n \in Nat /\ DOMAIN t.columns = 1 .. n
  BY TableMembers, WellFormedIs
<1>2. \A j \in 1 .. n : Sound(t, j) /\ t.columns[j].name # col.name
  BY <1>1, WellFormedIs DEF Has, Named
<1>3. Entry(col) \in SchemaEntry /\ Entry(col).name = col.name /\ Entry(col).type = col.type
  BY EntryMembers
<1>4. schema \in Seq(SchemaEntry) /\ Len(schema) = n + 1
      /\ \A j \in 1 .. n + 1 :
           schema[j] = IF j < i THEN t.schema[j] ELSE IF j = i THEN Entry(col) ELSE t.schema[j - 1]
  <2>1. IsInserted(schema, SchemaEntry, t.schema, i, Entry(col))
    BY <1>1, <1>3, InsertAtIs
  <2> HIDE DEF schema, n
  <2> QED
    BY <1>1, <2>1 DEF IsInserted
<1>5. columns \in Seq(DataColumn) /\ Len(columns) = n + 1
      /\ \A j \in 1 .. n + 1 :
           columns[j] = IF j < i THEN t.columns[j] ELSE IF j = i THEN col ELSE t.columns[j - 1]
  <2>1. IsInserted(columns, DataColumn, t.columns, i, col)
    BY <1>1, InsertAtIs
  <2> HIDE DEF columns, n
  <2> QED
    BY <1>1, <2>1 DEF IsInserted
<1>6. RemovedAt(columns, i) = t.columns
  BY <1>1, InsertedRemoved
<1>7. PICK len : len = Len(col.cells)
  OBVIOUS
<1>8. \A j \in 1 .. n : Len(t.columns[j].cells) = len
  <2> TAKE j \in 1 .. n
  <2>1. t.columns # <<>>
    BY <1>1
  <2> QED
    BY <1>2, <1>7, <2>1 DEF Sound
<1> HIDE DEF schema, columns, n
<1>9. i \in 1 .. n + 1 /\ n \in Nat
  BY <1>1 DEF n
<1>10. ASSUME NEW j \in 1 .. n + 1
       PROVE  \/ j = i /\ columns[j] = col /\ schema[j] = Entry(col)
              \/ \E k \in 1 .. n : /\ j # i /\ k = IF j < i THEN j ELSE j - 1
                                   /\ columns[j] = t.columns[k] /\ schema[j] = t.schema[k]
  <2>1. CASE j = i
    BY <1>4, <1>5, <1>9, <2>1
  <2>2. CASE j < i
    <3>1. j \in 1 .. n
      BY <1>9, <2>2
    <3> QED
      BY <1>4, <1>5, <1>9, <2>2, <3>1
  <2>3. CASE ~(j < i) /\ j # i
    <3>1. j - 1 \in 1 .. n
      BY <1>9, <2>3
    <3> QED
      BY <1>4, <1>5, <1>9, <2>3, <3>1
  <2> QED
    BY <2>1, <2>2, <2>3
<1>11. ASSUME NEW j \in 1 .. n + 1
       PROVE  /\ columns[j].name = schema[j].name /\ columns[j].type = schema[j].type
              /\ Len(columns[j].cells) = len /\ ColumnFits(columns[j])
              /\ columns[j].name = col.name <=> j = i
  <2>1. CASE j = i /\ columns[j] = col /\ schema[j] = Entry(col)
    BY <1>3, <1>7, <2>1
  <2>2. CASE \E k \in 1 .. n : /\ j # i /\ k = IF j < i THEN j ELSE j - 1
                               /\ columns[j] = t.columns[k] /\ schema[j] = t.schema[k]
    BY <1>2, <1>8, <2>2 DEF Sound
  <2> QED
    BY <1>10, <2>1, <2>2
<1>12. ASSUME NEW j \in 1 .. n + 1, NEW m \in 1 .. n + 1, columns[m].name = columns[j].name
       PROVE  m = j
  <2>1. CASE j = i \/ m = i
    BY <1>11, <1>12, <2>1
  <2>2. CASE j # i /\ m # i
    <3>1. PICK k \in 1 .. n : k = (IF j < i THEN j ELSE j - 1) /\ columns[j] = t.columns[k]
      BY <1>10, <2>2
    <3>2. PICK l \in 1 .. n : l = (IF m < i THEN m ELSE m - 1) /\ columns[m] = t.columns[l]
      BY <1>10, <2>2
    <3>3. l = k
      BY <1>1, <1>2, <1>12, <3>1, <3>2 DEF Sound, n
    <3> QED
      BY <1>9, <2>2, <3>1, <3>2, <3>3
  <2> QED
    BY <2>1, <2>2
<1>13. u = [schema |-> schema, columns |-> columns]
  BY DEF schema, columns
<1>14. u \in Table /\ WellFormed(u)
  <2>1. Fitting(schema, columns, len)
    BY <1>4, <1>5, <1>11, <1>12 DEF Fitting
  <2> QED
    BY <1>13, <2>1, WellFormedFrom
<1>15. OnlyAt(columns, col.name, i) /\ i \in 1 .. Len(columns)
  BY <1>5, <1>9, <1>11 DEF OnlyAt
<1>16. Without(columns, col.name) = t.columns
  BY <1>5, <1>6, <1>15, WithoutOne
<1> QED
  BY <1>13, <1>14, <1>16 DEF columns

\* A clamped index is a place, and one in range is its own.
LEMMA ClampedIs ==
  ASSUME NEW index \in Int, NEW n \in Nat
  PROVE  Clamped(index, n) \in 1 .. n + 1 /\ (index \in 0 .. n => Clamped(index, n) = index + 1)
BY DEF Clamped

\* An inserted column is taken back by its removal.
LEMMA InsertColumnTakenBack ==
  ASSUME NEW t \in Table, WellFormed(t),
         NEW op \in [kind : {"insertColumn"}, index : Int, column : DataColumn],
         ColumnFits(op.column), InsertColumn(op, t).ok,
         NEW inv, inv = [kind |-> "removeColumn", name |-> op.column.name]
  PROVE  /\ InsertColumn(op, t).table \in Table /\ WellFormed(InsertColumn(op, t).table)
         /\ inv \in [kind : {"removeColumn"}, name : Name]
         /\ RemoveColumn(inv, InsertColumn(op, t).table).ok
         /\ RemoveColumn(inv, InsertColumn(op, t).table).table.columns = t.columns
<1>1. PICK col \in DataColumn : col = op.column
  OBVIOUS
<1>2. PICK i : i = Clamped(op.index, Len(t.columns))
  OBVIOUS
<1>3. i \in 1 .. Len(t.columns) + 1
  <2>1. op.index \in Int /\ Len(t.columns) \in Nat
    BY TableMembers
  <2> QED
    BY <1>2, <2>1, ClampedIs
<1>4. PICK u : u = [schema |-> InsertAt(t.schema, i, Entry(col)),
                    columns |-> InsertAt(t.columns, i, col)]
  OBVIOUS
<1>5. /\ ~Has(t, col.name) /\ (t.columns # <<>> => Len(col.cells) = RowCount(t))
      /\ InsertColumn(op, t) = Done(u)
  <2>1. ~Has(t, col.name)
    BY <1>1, RefuseMembers, Zenon DEF InsertColumn
  <2>2. t.columns # <<>> => Len(col.cells) = RowCount(t)
    BY <1>1, <2>1, RefuseMembers, Zenon DEF InsertColumn
  <2> QED
    BY <1>1, <1>2, <1>4, <2>1, <2>2, Zenon DEF InsertColumn
<1>6. /\ u \in Table /\ WellFormed(u) /\ u.columns = InsertAt(t.columns, i, col)
      /\ Without(u.columns, col.name) = t.columns
  BY <1>1, <1>3, <1>4, <1>5, ColumnInserted
<1>7. inv \in [kind : {"removeColumn"}, name : Name] /\ inv.name = col.name
  BY <1>1, ColumnMembers
<1>8. Has(u, col.name)
  <2>1. t.columns \in Seq(DataColumn) /\ col \in DataColumn
    BY <1>1, TableMembers
  <2>2. IsInserted(u.columns, DataColumn, t.columns, i, col)
    BY <1>3, <1>6, <2>1, InsertAtIs
  <2>3. i \in DOMAIN u.columns /\ u.columns[i] = col
    BY <1>3, <2>1, <2>2 DEF IsInserted
  <2> QED
    BY <1>6, <2>3, OnlyColumn
<1>9. PICK back : back = [schema |-> Without(u.schema, col.name), columns |-> Without(u.columns, col.name)]
  OBVIOUS
<1>10. RemoveColumn(inv, u) = Done(back)
  BY <1>7, <1>8, <1>9, Zenon DEF RemoveColumn
<1>11. back.columns = t.columns
  BY <1>6, <1>9
<1> QED
  BY <1>5, <1>6, <1>7, <1>10, <1>11, DoneMembers

\* Taking a column out keeps the table well formed.
LEMMA ColumnRemoved ==
  ASSUME NEW t \in Table, WellFormed(t), NEW i \in DOMAIN t.columns,
         NEW name, name = t.columns[i].name,
         NEW u, u = [schema |-> Without(t.schema, name), columns |-> Without(t.columns, name)]
  PROVE  /\ u \in Table /\ WellFormed(u) /\ ~Has(u, name)
         /\ i \in 1 .. Len(u.columns) + 1 /\ u.columns = RemovedAt(t.columns, i)
         /\ u.columns # <<>> => RowCount(u) = RowCount(t)
<1> DEFINE n == Len(t.columns)
           schema == RemovedAt(t.schema, i)
           columns == RemovedAt(t.columns, i)
<1>1. t.schema \in Seq(SchemaEntry) /\ t.columns \in Seq(DataColumn)
      /\ Len(t.schema) = n /\ n \in Nat /\ DOMAIN t.columns = 1 .. n
  BY TableMembers, WellFormedIs
<1>2. \A j \in 1 .. n : Sound(t, j)
  BY <1>1, WellFormedIs
<1>3. OnlyAt(t.columns, name, i) /\ OnlyAt(t.schema, name, i)
  BY <1>1, <1>2 DEF OnlyAt, Sound
<1>4. i \in 1 .. Len(t.schema) /\ i \in 1 .. Len(t.columns)
  BY <1>1
<1>5. Without(t.schema, name) = schema /\ Without(t.columns, name) = columns
  BY <1>1, <1>3, <1>4, WithoutOne
<1>6. schema \in Seq(SchemaEntry) /\ Len(schema) = n - 1
      /\ \A j \in 1 .. n - 1 : schema[j] = IF j < i THEN t.schema[j] ELSE t.schema[j + 1]
  BY <1>1, <1>4, RemovedAtIs
<1>7. columns \in Seq(DataColumn) /\ Len(columns) = n - 1
      /\ \A j \in 1 .. n - 1 : columns[j] = IF j < i THEN t.columns[j] ELSE t.columns[j + 1]
  BY <1>1, <1>4, RemovedAtIs
<1>8. PICK len : len = RowCount(t)
  OBVIOUS
<1>9. i \in 1 .. n /\ n \in Nat
  BY <1>1, <1>4
<1> HIDE DEF schema, columns, n
<1>10. ASSUME NEW j \in 1 .. n - 1
       PROVE  \E k \in 1 .. n : /\ k = (IF j < i THEN j ELSE j + 1) /\ k # i
                                /\ columns[j] = t.columns[k] /\ schema[j] = t.schema[k]
  <2>1. j \in 1 .. n /\ j + 1 \in 1 .. n
    BY <1>9
  <2> QED
    BY <1>6, <1>7, <1>9, <2>1
<1>11. ASSUME NEW j \in 1 .. n - 1
       PROVE  /\ columns[j].name = schema[j].name /\ columns[j].type = schema[j].type
              /\ Len(columns[j].cells) = len /\ ColumnFits(columns[j])
              /\ columns[j].name # name
  <2>1. PICK k \in 1 .. n : k # i /\ columns[j] = t.columns[k] /\ schema[j] = t.schema[k]
    BY <1>10
  <2>2. Sound(t, k) /\ t.columns[k].name # name
    BY <1>2, <1>3, <1>9, <2>1 DEF OnlyAt, n
  <2> QED
    BY <1>8, <2>1, <2>2 DEF Sound
<1>12. ASSUME NEW j \in 1 .. n - 1, NEW m \in 1 .. n - 1, columns[m].name = columns[j].name
       PROVE  m = j
  <2>1. PICK k \in 1 .. n : k = (IF j < i THEN j ELSE j + 1) /\ columns[j] = t.columns[k]
    BY <1>10
  <2>2. PICK l \in 1 .. n : l = (IF m < i THEN m ELSE m + 1) /\ columns[m] = t.columns[l]
    BY <1>10
  <2>3. l = k
    BY <1>1, <1>2, <1>12, <2>1, <2>2 DEF Sound, n
  <2> QED
    BY <1>9, <2>1, <2>2, <2>3
<1>13. u = [schema |-> schema, columns |-> columns]
  BY <1>5
<1>14. Fitting(schema, columns, len)
  BY <1>6, <1>7, <1>11, <1>12 DEF Fitting
<1>15. u \in Table /\ WellFormed(u) /\ (columns # <<>> => RowCount(u) = len)
  BY <1>13, <1>14, WellFormedFrom
<1>16. u.columns = columns /\ DOMAIN columns = 1 .. n - 1
  BY <1>7, <1>13
<1>17. ~Has(u, name)
  <2> SUFFICES ASSUME Has(u, name)
               PROVE  FALSE
    OBVIOUS
  <2>1. PICK j \in DOMAIN u.columns : u.columns[j].name = name
    BY HasColumn
  <2> QED
    BY <1>11, <1>16, <2>1
<1>18. i \in 1 .. Len(columns) + 1
  BY <1>7, <1>9
<1> QED
  BY <1>8, <1>15, <1>16, <1>17, <1>18 DEF columns

\* A removed column is taken back by its insertion at its place.
LEMMA RemoveColumnTakenBack ==
  ASSUME NEW t \in Table, WellFormed(t), NEW op \in [kind : {"removeColumn"}, name : Name],
         RemoveColumn(op, t).ok,
         NEW inv, inv = [kind |-> "insertColumn", index |-> Position(t, op.name) - 1,
                         column |-> Find(t, op.name)]
  PROVE  /\ RemoveColumn(op, t).table \in Table /\ WellFormed(RemoveColumn(op, t).table)
         /\ inv \in [kind : {"insertColumn"}, index : Int, column : DataColumn]
         /\ ColumnFits(inv.column)
         /\ InsertColumn(inv, RemoveColumn(op, t).table).ok
         /\ InsertColumn(inv, RemoveColumn(op, t).table).table.columns = t.columns
<1>1. PICK name : name = op.name
  OBVIOUS
<1>2. PICK u : u = [schema |-> Without(t.schema, name), columns |-> Without(t.columns, name)]
  OBVIOUS
<1>3. Has(t, name) /\ RemoveColumn(op, t) = Done(u)
  <2>1. Has(t, name)
    BY <1>1, RefuseMembers, Zenon DEF RemoveColumn
  <2> QED
    BY <1>1, <1>2, <2>1, Zenon DEF RemoveColumn
<1>4. PICK i \in DOMAIN t.columns : t.columns[i].name = name
  BY <1>3, HasColumn
<1>5. /\ u \in Table /\ WellFormed(u) /\ ~Has(u, name)
      /\ i \in 1 .. Len(u.columns) + 1 /\ u.columns = RemovedAt(t.columns, i)
      /\ u.columns # <<>> => RowCount(u) = RowCount(t)
  BY <1>2, <1>4, ColumnRemoved
<1>6. PICK c \in DataColumn : c = t.columns[i]
  BY TableMembers
<1>7. Find(t, name) = c /\ Position(t, name) = i /\ c.name = name
  BY <1>4, <1>6, OnlyColumn
<1>8. ColumnFits(c) /\ Len(c.cells) = RowCount(t)
  BY <1>6, WellFormedIs DEF Sound
<1>9. i \in Int /\ i - 1 \in Int
  BY <1>5
<1>10. /\ inv \in [kind : {"insertColumn"}, index : Int, column : DataColumn]
       /\ inv.column = c /\ inv.index = i - 1
  BY <1>1, <1>6, <1>7, <1>9
<1>11. Clamped(inv.index, Len(u.columns)) = i
  <2>1. Len(u.columns) \in Nat /\ i - 1 \in 0 .. Len(u.columns) /\ (i - 1) + 1 = i
    BY <1>5, TableMembers
  <2> QED
    BY <1>9, <1>10, <2>1, ClampedIs
<1>12. PICK back : back = [schema |-> InsertAt(u.schema, i, Entry(c)), columns |-> InsertAt(u.columns, i, c)]
  OBVIOUS
<1>13. InsertColumn(inv, u) = Done(back)
  <2>1. ~(u.columns # <<>> /\ Len(inv.column.cells) # RowCount(u))
    BY <1>5, <1>8, <1>10
  <2> QED
    BY <1>5, <1>7, <1>10, <1>11, <1>12, <2>1, Zenon DEF InsertColumn
<1>14. back.columns = t.columns
  <2>1. t.columns \in Seq(DataColumn) /\ i \in 1 .. Len(t.columns)
    BY TableMembers
  <2>2. InsertAt(RemovedAt(t.columns, i), i, t.columns[i]) = t.columns
    BY <2>1, RemovedInserted
  <2> QED
    BY <1>5, <1>6, <1>12, <2>2
<1> QED
  BY <1>3, <1>5, <1>8, <1>10, <1>13, <1>14, DoneMembers

----------------------------------------------------------------------------
(* Rows appended.                                                          *)

RowCell == [col : Name, value : CellValue]

\* What a row says of a column is null or a cell of the row.
LEMMA SaysIs ==
  ASSUME NEW row \in Seq(RowCell), NEW name
  PROVE  \/ Says(row, name) = Null
         \/ \E k \in DOMAIN row : row[k].col = name /\ Says(row, name) = row[k].value
<1>1. CASE Mentions(row, name) = {}
  BY <1>1 DEF Says
<1>2. CASE Mentions(row, name) # {}
  <2>1. Mentions(row, name) \in SUBSET Nat
    BY DEF Mentions
  <2>2. PICK n \in Mentions(row, name) : \A m \in Mentions(row, name) : n <= m
    BY <1>2, <2>1, OtherFold!LeastNatural
  <2> DEFINE k == CHOOSE i \in Mentions(row, name) : \A j \in Mentions(row, name) : i <= j
  <2>3. k \in Mentions(row, name)
    BY <2>2, Zenon
  <2>4. Says(row, name) = row[k].value
    BY <1>2, Zenon DEF Says
  <2> HIDE DEF k
  <2> QED
    BY <2>3, <2>4 DEF Mentions
<1> QED
  BY <1>1, <1>2

\* What two sequences are together.
LEMMA Concatenated ==
  ASSUME NEW S, NEW a \in Seq(S), NEW b \in Seq(S)
  PROVE  /\ a \o b \in Seq(S) /\ Len(a \o b) = Len(a) + Len(b)
         /\ \A k \in 1 .. Len(a) + Len(b) : (a \o b)[k] = IF k <= Len(a) THEN a[k] ELSE b[k - Len(a)]
OBVIOUS

\* A column that grows by cells that fit keeps the cells it had.
LEMMA ColumnGrown ==
  ASSUME NEW c \in DataColumn, NEW rows \in Seq(Seq(RowCell)), ColumnFits(c),
         \A r \in DOMAIN rows : Says(rows[r], c.name) \in CellValue
                                /\ CellFits(c.type, Says(rows[r], c.name))
  PROVE  /\ Grown(c, rows) \in DataColumn
         /\ Grown(c, rows).name = c.name /\ Grown(c, rows).type = c.type
         /\ Len(Grown(c, rows).cells) = Len(c.cells) + Len(rows)
         /\ \A k \in DOMAIN c.cells : Grown(c, rows).cells[k] = c.cells[k]
         /\ ColumnFits(Grown(c, rows))
<1> DEFINE news == [r \in DOMAIN rows |-> Says(rows[r], c.name)]
           cells == c.cells \o news
<1>1. /\ c.name \in Name /\ c.type \in ColumnType /\ c.cells \in Seq(CellValue)
      /\ c = [name |-> c.name, type |-> c.type, cells |-> c.cells]
  BY ColumnMembers
<1>2. DOMAIN rows = 1 .. Len(rows) /\ Len(rows) \in Nat
  OBVIOUS
<1>3. news \in Seq(CellValue) /\ Len(news) = Len(rows) /\ DOMAIN news = DOMAIN rows
      /\ \A r \in DOMAIN rows : news[r] = Says(rows[r], c.name)
  <2>1. \A r \in 1 .. Len(rows) : news[r] \in CellValue
    BY <1>2
  <2>2. news \in [1 .. Len(rows) -> CellValue]
    BY <1>2, <2>1
  <2> QED
    BY <1>2, <2>2
<1>4. Grown(c, rows) = [name |-> c.name, type |-> c.type, cells |-> cells]
  <2>1. [c EXCEPT !.cells = @ \o news] = [c EXCEPT !.cells = cells]
    OBVIOUS
  <2>2. Grown(c, rows) = [c EXCEPT !.cells = @ \o news]
    BY Zenon DEF Grown
  <2> HIDE DEF cells
  <2>3. [c EXCEPT !.cells = cells] = [name |-> c.name, type |-> c.type, cells |-> cells]
    BY <1>1
  <2> QED
    BY <2>1, <2>2, <2>3
<1> HIDE DEF news
<1>5. cells \in Seq(CellValue) /\ Len(cells) = Len(c.cells) + Len(rows)
      /\ \A k \in 1 .. Len(c.cells) + Len(rows) :
           cells[k] = IF k <= Len(c.cells) THEN c.cells[k] ELSE news[k - Len(c.cells)]
  <2>1. PICK a \in Seq(CellValue) : a = c.cells
    BY <1>1
  <2>2. PICK b \in Seq(CellValue) : b = news /\ Len(b) = Len(rows)
    BY <1>3
  <2>3. /\ a \o b \in Seq(CellValue) /\ Len(a \o b) = Len(a) + Len(b)
        /\ \A k \in 1 .. Len(a) + Len(b) : (a \o b)[k] = IF k <= Len(a) THEN a[k] ELSE b[k - Len(a)]
    <3>1. a \in Seq(CellValue) /\ b \in Seq(CellValue)
      BY <2>1, <2>2
    <3> QED
      BY <3>1, Concatenated, Zenon
  <2>4. a \o b = cells
    BY <2>1, <2>2, Zenon
  <2> HIDE DEF cells
  <2> QED
    BY <2>1, <2>2, <2>3, <2>4
<1>6. \A k \in DOMAIN cells : CellFits(c.type, cells[k])
  <2> HIDE DEF cells
  <2>0. DOMAIN cells = 1 .. Len(c.cells) + Len(rows) /\ Len(c.cells) \in Nat
    BY <1>1, <1>5
  <2> TAKE k \in DOMAIN cells
  <2>1. CASE k <= Len(c.cells)
    <3>1. k \in DOMAIN c.cells
      BY <1>1, <2>0, <2>1
    <3> QED
      BY <1>5, <2>0, <2>1, <3>1 DEF ColumnFits
  <2>2. CASE ~(k <= Len(c.cells))
    <3>1. k - Len(c.cells) \in DOMAIN rows
      BY <1>2, <2>0, <2>2
    <3> QED
      BY <1>3, <1>5, <2>0, <2>2, <3>1
  <2> QED
    BY <2>1, <2>2
<1>7. \A k \in DOMAIN c.cells : cells[k] = c.cells[k]
  <2> HIDE DEF cells
  <2> TAKE k \in DOMAIN c.cells
  <2>1. k \in 1 .. Len(c.cells) + Len(rows) /\ k <= Len(c.cells)
    BY <1>1, <1>2
  <2> QED
    BY <1>5, <2>1
<1> HIDE DEF cells
<1> QED
  BY <1>1, <1>4, <1>5, <1>6, <1>7, IsColumn DEF ColumnFits

\* Appended rows keep the table well formed and every row it had.
LEMMA AppendRowsKeeps ==
  ASSUME NEW t \in Table, WellFormed(t),
         NEW op \in [kind : {"appendRows"}, rows : Seq(Seq(RowCell))], AppendRows(op, t).ok,
         NEW u, u = AppendRows(op, t).table
  PROVE  /\ u \in Table /\ WellFormed(u) /\ RowCount(t) <= RowCount(u)
         /\ DOMAIN u.columns = DOMAIN t.columns
         /\ \A i \in DOMAIN t.columns :
              /\ u.columns[i].name = t.columns[i].name
              /\ \A k \in DOMAIN t.columns[i].cells : u.columns[i].cells[k] = t.columns[i].cells[k]
<1>1. PICK rows \in Seq(Seq(RowCell)) : rows = op.rows
  OBVIOUS
<1> DEFINE n == Len(t.columns)
           columns == [i \in DOMAIN t.columns |-> Grown(t.columns[i], rows)]
<1>2. Faulty(t, rows) = {} /\ AppendRows(op, t) = Done([t EXCEPT !.columns = columns])
  <2>1. Faulty(t, rows) = {}
    BY <1>1, RefuseMembers, Zenon DEF AppendRows
  <2>2. AppendRows(op, t)
          = Done([t EXCEPT !.columns = [i \in DOMAIN @ |-> Grown(@[i], rows)]])
    BY <1>1, <2>1, Zenon DEF AppendRows
  <2>3. [t EXCEPT !.columns = [i \in DOMAIN @ |-> Grown(@[i], rows)]] = [t EXCEPT !.columns = columns]
    OBVIOUS
  <2> QED
    BY <2>1, <2>2, <2>3
<1>3. t.schema \in Seq(SchemaEntry) /\ t.columns \in Seq(DataColumn)
      /\ t = [schema |-> t.schema, columns |-> t.columns]
      /\ Len(t.schema) = n /\ n \in Nat /\ DOMAIN t.columns = 1 .. n
  BY TableMembers, WellFormedIs
<1>4. \A i \in 1 .. n : Sound(t, i)
  BY <1>3, WellFormedIs
<1>5. ASSUME NEW r \in DOMAIN rows, NEW k \in DOMAIN rows[r]
      PROVE  Has(t, rows[r][k].col) /\ CellFits(Find(t, rows[r][k].col).type, rows[r][k].value)
  <2>1. Fault(t, rows[r][k]) = ""
    <3>1. <<r, k>>[1] = r /\ <<r, k>>[2] = k
      OBVIOUS
    <3>2. <<r, k>> \in UNION {{q} \X DOMAIN rows[q] : q \in DOMAIN rows}
      OBVIOUS
    <3> QED
      BY <1>2, <3>1, <3>2 DEF Faulty
  <2> QED
    BY <2>1 DEF Fault
<1>6. ASSUME NEW i \in 1 .. n, NEW r \in DOMAIN rows
      PROVE  Says(rows[r], t.columns[i].name) \in CellValue
             /\ CellFits(t.columns[i].type, Says(rows[r], t.columns[i].name))
  <2>1. rows[r] \in Seq(RowCell)
    OBVIOUS
  <2>2. CASE Says(rows[r], t.columns[i].name) = Null
    BY <2>2, NullIsCell DEF CellFits
  <2>3. CASE \E k \in DOMAIN rows[r] : /\ rows[r][k].col = t.columns[i].name
                                       /\ Says(rows[r], t.columns[i].name) = rows[r][k].value
    <3>1. PICK k \in DOMAIN rows[r] : /\ rows[r][k].col = t.columns[i].name
                                      /\ Says(rows[r], t.columns[i].name) = rows[r][k].value
      BY <2>3
    <3>2. rows[r][k] \in RowCell
      BY <2>1
    <3>3. rows[r][k].value \in CellValue
      BY <3>2 DEF RowCell
    <3>4. Find(t, t.columns[i].name) = t.columns[i]
      BY <1>3, OnlyColumn
    <3>5. CellFits(Find(t, t.columns[i].name).type, rows[r][k].value)
      BY <1>5, <3>1
    <3> QED
      BY <3>1, <3>3, <3>4, <3>5
  <2>4. \/ Says(rows[r], t.columns[i].name) = Null
        \/ \E k \in DOMAIN rows[r] : /\ rows[r][k].col = t.columns[i].name
                                     /\ Says(rows[r], t.columns[i].name) = rows[r][k].value
    <3>1. PICK row \in Seq(RowCell) : row = rows[r]
      BY <2>1
    <3>2. PICK name : name = t.columns[i].name
      OBVIOUS
    <3>3. \/ Says(row, name) = Null
          \/ \E k \in DOMAIN row : row[k].col = name /\ Says(row, name) = row[k].value
      <4>1. row \in Seq(RowCell)
        BY <3>1
      <4> QED
        BY <4>1, SaysIs
    <3> QED
      BY <3>1, <3>2, <3>3, Zenon
  <2> QED
    BY <2>2, <2>3, <2>4
<1>7. PICK old : old = RowCount(t)
  OBVIOUS
<1>8. ASSUME NEW i \in 1 .. n
      PROVE  /\ columns[i] = Grown(t.columns[i], rows) /\ columns[i] \in DataColumn
             /\ columns[i].name = t.columns[i].name /\ columns[i].type = t.columns[i].type
             /\ Len(columns[i].cells) = old + Len(rows) /\ ColumnFits(columns[i])
             /\ \A k \in DOMAIN t.columns[i].cells : columns[i].cells[k] = t.columns[i].cells[k]
  <2>1. columns[i] = Grown(t.columns[i], rows)
    BY <1>3
  <2> HIDE DEF columns
  <2>2. PICK c \in DataColumn : c = t.columns[i]
    BY <1>3
  <2>3. ColumnFits(c) /\ Len(c.cells) = old
    BY <1>4, <1>7, <2>2 DEF Sound
  <2>4. \A r \in DOMAIN rows : Says(rows[r], c.name) \in CellValue
                               /\ CellFits(c.type, Says(rows[r], c.name))
    BY <1>6, <2>2
  <2>5. /\ Grown(c, rows) \in DataColumn
        /\ Grown(c, rows).name = c.name /\ Grown(c, rows).type = c.type
        /\ Len(Grown(c, rows).cells) = Len(c.cells) + Len(rows)
        /\ \A k \in DOMAIN c.cells : Grown(c, rows).cells[k] = c.cells[k]
        /\ ColumnFits(Grown(c, rows))
    BY <2>3, <2>4, ColumnGrown
  <2> QED
    BY <2>1, <2>2, <2>3, <2>5
<1>9. columns \in Seq(DataColumn) /\ Len(columns) = n
  <2>1. DOMAIN columns = 1 .. n
    BY <1>3
  <2>2. columns \in [1 .. n -> DataColumn]
    <3>1. columns = [i \in 1 .. n |-> columns[i]]
      BY <1>3
    <3> HIDE DEF columns
    <3> QED
      BY <1>8, <3>1
  <2>3. PICK m \in Nat : m = n
    BY <1>3
  <2>4. columns \in [1 .. m -> DataColumn]
    BY <2>2, <2>3
  <2> HIDE DEF columns, n
  <2>5. columns \in Seq(DataColumn) /\ Len(columns) = m
    BY <2>3, <2>4
  <2> QED
    BY <2>3, <2>5
<1> HIDE DEF columns, n
<1>10. Fitting(t.schema, columns, old + Len(rows))
  <2>1. ASSUME NEW i \in 1 .. n
        PROVE  /\ columns[i].name = t.schema[i].name /\ columns[i].type = t.schema[i].type
               /\ \A j \in 1 .. n : columns[j].name = columns[i].name => j = i
    BY <1>3, <1>4, <1>8 DEF Sound, n
  <2> QED
    BY <1>3, <1>8, <1>9, <2>1 DEF Fitting
<1>11. [t EXCEPT !.columns = columns] = [schema |-> t.schema, columns |-> columns]
  BY <1>3
<1>12. u = [schema |-> t.schema, columns |-> columns]
  BY <1>2, <1>11, DoneMembers
<1>13. u \in Table /\ WellFormed(u) /\ (columns # <<>> => RowCount(u) = old + Len(rows))
  BY <1>10, <1>12, WellFormedFrom
<1>14. u.columns = columns /\ DOMAIN columns = DOMAIN t.columns
  BY <1>3, <1>9, <1>12
<1>15. RowCount(t) <= RowCount(u)
  <2>1. CASE columns = <<>>
    <3>1. t.columns = <<>>
      BY <1>3, <1>9, <2>1
    <3> QED
      BY <1>14, <2>1, <3>1 DEF RowCount
  <2>2. CASE columns # <<>>
    <3>1. 1 \in DOMAIN t.columns
      BY <1>3, <1>9, <2>2
    <3>2. RowCount(t) \in Nat
      BY <1>3, <3>1, RowCountIs
    <3>3. Len(rows) \in Nat
      OBVIOUS
    <3> QED
      BY <1>7, <1>13, <2>2, <3>2, <3>3
  <2> QED
    BY <2>1, <2>2
<1> QED
  BY <1>3, <1>8, <1>13, <1>14, <1>15

----------------------------------------------------------------------------
(* Every op.                                                               *)

\* Every pipeline an edit carries answers a well-formed table, where it answers one,
\* with a well-formed one.
PipelinesAreSound ==
  \A edit \in Edits : edit.op.kind = "applyTransform" =>
    \A t \in Table :
      LET r == EvalPipeline(edit.op.pipeline, t)
      IN  WellFormed(t) /\ r.ok => r.table \in Table /\ WellFormed(r.table)

Kinds == {"setCell", "setColumn", "insertColumn", "removeColumn"}

\* An op that was decoded and that the history can take back.
Reversible(op) == IsOp(op) /\ DecodeColumnOp(op) /\ op.kind \in Kinds

\* The four kinds of reversible op.
LEMMA ReversibleIs ==
  ASSUME NEW op
  PROVE  Reversible(op) <=>
           \/ op \in [kind : {"setCell"}, col : Name, row : Int, value : CellValue]
           \/ op \in [kind : {"setColumn"}, column : DataColumn] /\ ColumnFits(op.column)
           \/ op \in [kind : {"insertColumn"}, index : Int, column : DataColumn] /\ ColumnFits(op.column)
           \/ op \in [kind : {"removeColumn"}, name : Name]
BY DEF Reversible, IsOp, DecodeColumnOp, Kinds

\* Applied to a well-formed table, it leaves one that is well formed, and the op kept
\* for it takes it back: it is not refused and the columns are those before the edit.
THEOREM EveryOpIsTakenBack ==
  ASSUME NEW t \in Table, WellFormed(t), NEW op, Reversible(op), ApplyColumnOp(op, t).ok,
         NEW u, u = ApplyColumnOp(op, t).table, NEW inv, inv = InvertOp(op, t)
  PROVE  /\ u \in Table /\ WellFormed(u) /\ Reversible(inv)
         /\ ApplyColumnOp(inv, u).ok /\ ApplyColumnOp(inv, u).table.columns = t.columns
<1>1. CASE op \in [kind : {"setCell"}, col : Name, row : Int, value : CellValue]
  <2>1. op.kind = "setCell" /\ op.row \in Int /\ op.value \in CellValue
    BY <1>1
  <2>2. ApplyColumnOp(op, t) = SetCell(op, t)
        /\ inv = [op EXCEPT !.value = Find(t, op.col).cells[op.row + 1]]
    BY <2>1 DEF ApplyColumnOp, InvertOp
  <2>3. SetCell(op, t).ok /\ SetCell(op, t).table = u
    BY <2>2
  <2>4. /\ inv \in [kind : {"setCell"}, col : Name, row : Int, value : CellValue]
        /\ SetCell(inv, u).ok /\ SetCell(inv, u).table.columns = t.columns
    BY <1>1, <2>2, <2>3, SetCellTakenBack
  <2>5. u \in Table /\ WellFormed(u)
    BY <2>1, <2>3, SetCellKeeps
  <2>6. inv.kind = "setCell"
    BY <2>4
  <2>7. ApplyColumnOp(inv, u) = SetCell(inv, u)
    BY <2>6 DEF ApplyColumnOp
  <2> QED
    BY <2>4, <2>5, <2>7, ReversibleIs
<1>2. CASE op \in [kind : {"setColumn"}, column : DataColumn] /\ ColumnFits(op.column)
  <2>1. op.kind = "setColumn"
    BY <1>2
  <2>2. ApplyColumnOp(op, t) = SetColumn(op, t)
        /\ inv = [op EXCEPT !.column = Find(t, op.column.name)]
    BY <2>1 DEF ApplyColumnOp, InvertOp
  <2>3. SetColumn(op, t).ok /\ SetColumn(op, t).table = u
    BY <2>2
  <2>4. /\ u \in Table /\ WellFormed(u)
        /\ inv \in [kind : {"setColumn"}, column : DataColumn] /\ ColumnFits(inv.column)
        /\ SetColumn(inv, u).ok /\ SetColumn(inv, u).table.columns = t.columns
    BY <1>2, <2>2, <2>3, SetColumnTakenBack
  <2>5. inv.kind = "setColumn"
    BY <2>4
  <2>6. ApplyColumnOp(inv, u) = SetColumn(inv, u)
    BY <2>5 DEF ApplyColumnOp
  <2> QED
    BY <2>4, <2>6, ReversibleIs
<1>3. CASE op \in [kind : {"insertColumn"}, index : Int, column : DataColumn] /\ ColumnFits(op.column)
  <2>1. op.kind = "insertColumn"
    BY <1>3
  <2>2. ApplyColumnOp(op, t) = InsertColumn(op, t)
        /\ inv = [kind |-> "removeColumn", name |-> op.column.name]
    BY <2>1 DEF ApplyColumnOp, InvertOp
  <2>3. InsertColumn(op, t).ok /\ InsertColumn(op, t).table = u
    BY <2>2
  <2>4. /\ u \in Table /\ WellFormed(u)
        /\ inv \in [kind : {"removeColumn"}, name : Name]
        /\ RemoveColumn(inv, u).ok /\ RemoveColumn(inv, u).table.columns = t.columns
    BY <1>3, <2>2, <2>3, InsertColumnTakenBack
  <2>5. inv.kind = "removeColumn"
    BY <2>4
  <2>6. ApplyColumnOp(inv, u) = RemoveColumn(inv, u)
    BY <2>5 DEF ApplyColumnOp
  <2> QED
    BY <2>4, <2>6, ReversibleIs
<1>4. CASE op \in [kind : {"removeColumn"}, name : Name]
  <2>1. op.kind = "removeColumn"
    BY <1>4
  <2>2. ApplyColumnOp(op, t) = RemoveColumn(op, t)
        /\ inv = [kind |-> "insertColumn", index |-> Position(t, op.name) - 1,
                  column |-> Find(t, op.name)]
    BY <2>1 DEF ApplyColumnOp, InvertOp
  <2>3. RemoveColumn(op, t).ok /\ RemoveColumn(op, t).table = u
    BY <2>2
  <2>4. /\ u \in Table /\ WellFormed(u)
        /\ inv \in [kind : {"insertColumn"}, index : Int, column : DataColumn]
        /\ ColumnFits(inv.column)
        /\ InsertColumn(inv, u).ok /\ InsertColumn(inv, u).table.columns = t.columns
    BY <1>4, <2>2, <2>3, RemoveColumnTakenBack
  <2>5. inv.kind = "insertColumn"
    BY <2>4
  <2>6. ApplyColumnOp(inv, u) = InsertColumn(inv, u)
    BY <2>5 DEF ApplyColumnOp
  <2> QED
    BY <2>4, <2>6, ReversibleIs
<1> QED
  BY <1>1, <1>2, <1>3, <1>4, ReversibleIs

\* Two answers with the same columns are alike.
LEMMA BothDone ==
  ASSUME NEW a, NEW b, a.columns = b.columns, NEW x, x = Done(a), NEW y, y = Done(b)
  PROVE  x.ok = y.ok /\ x.table.columns = y.table.columns
BY DoneMembers

\* What it does to the columns, and whether it is refused, it reads off the columns.
LEMMA ColumnsDecide ==
  ASSUME NEW t, NEW u, t.columns = u.columns, NEW op, op.kind \in Kinds
  PROVE  /\ ApplyColumnOp(op, t).ok = ApplyColumnOp(op, u).ok
         /\ ApplyColumnOp(op, t).ok =>
              ApplyColumnOp(op, t).table.columns = ApplyColumnOp(op, u).table.columns
<1>1. RowCount(t) = RowCount(u)
  BY Zenon DEF RowCount
<1>2. \A name : Has(t, name) = Has(u, name) /\ Find(t, name) = Find(u, name)
  BY Zenon DEF Has, Find, Position, Named
<1>3. \A col : WithColumn(t, col).columns = WithColumn(u, col).columns
  BY DEF WithColumn
<1>4. CASE op.kind = "setCell"
  <2>1. ApplyColumnOp(op, t) = SetCell(op, t) /\ ApplyColumnOp(op, u) = SetCell(op, u)
    BY <1>4 DEF ApplyColumnOp
  <2>2. CASE ~Has(t, op.col) \/ op.row \notin 0 .. RowCount(t) - 1
             \/ ~CellFits(Find(t, op.col).type, op.value)
    BY <1>1, <1>2, <2>1, <2>2, RefuseMembers DEF SetCell
  <2>3. CASE Has(t, op.col) /\ op.row \in 0 .. RowCount(t) - 1
             /\ CellFits(Find(t, op.col).type, op.value)
    <3>1. PICK col : col = [Find(t, op.col) EXCEPT !.cells[op.row + 1] = op.value]
      OBVIOUS
    <3>2. SetCell(op, t) = Done(WithColumn(t, col))
      BY <2>3, <3>1, Zenon DEF SetCell
    <3>3. /\ Has(u, op.col) /\ op.row \in 0 .. RowCount(u) - 1
          /\ CellFits(Find(u, op.col).type, op.value)
          /\ col = [Find(u, op.col) EXCEPT !.cells[op.row + 1] = op.value]
      BY <1>1, <1>2, <2>3, <3>1, Zenon
    <3>4. SetCell(op, u) = Done(WithColumn(u, col))
      BY <3>3, Zenon DEF SetCell
    <3> QED
      <4>1. PICK a : a = WithColumn(t, col)
        OBVIOUS
      <4>2. PICK b : b = WithColumn(u, col)
        OBVIOUS
      <4>3. a.columns = b.columns
        BY <1>3, <4>1, <4>2
      <4>4. ApplyColumnOp(op, t) = Done(a) /\ ApplyColumnOp(op, u) = Done(b)
        BY <2>1, <3>2, <3>4, <4>1, <4>2
      <4> QED
        BY <4>3, <4>4, BothDone
  <2> QED
    BY <2>2, <2>3
<1>5. CASE op.kind = "setColumn"
  <2>1. ApplyColumnOp(op, t) = SetColumn(op, t) /\ ApplyColumnOp(op, u) = SetColumn(op, u)
    BY <1>5 DEF ApplyColumnOp
  <2>2. CASE ~Has(t, op.column.name) \/ Len(op.column.cells) # RowCount(t)
    BY <1>1, <1>2, <2>1, <2>2, RefuseMembers DEF SetColumn
  <2>3. CASE Has(t, op.column.name) /\ Len(op.column.cells) = RowCount(t)
    <3>1. SetColumn(op, t) = Done(WithColumn(t, op.column))
          /\ SetColumn(op, u) = Done(WithColumn(u, op.column))
      BY <1>1, <1>2, <2>3, Zenon DEF SetColumn
    <3> QED
      <4>1. PICK a : a = WithColumn(t, op.column)
        OBVIOUS
      <4>2. PICK b : b = WithColumn(u, op.column)
        OBVIOUS
      <4>3. a.columns = b.columns
        BY <1>3, <4>1, <4>2
      <4>4. ApplyColumnOp(op, t) = Done(a) /\ ApplyColumnOp(op, u) = Done(b)
        BY <2>1, <3>1, <4>1, <4>2
      <4> QED
        BY <4>3, <4>4, BothDone
  <2> QED
    BY <2>2, <2>3
<1>6. CASE op.kind = "insertColumn"
  <2>1. ApplyColumnOp(op, t) = InsertColumn(op, t) /\ ApplyColumnOp(op, u) = InsertColumn(op, u)
    BY <1>6 DEF ApplyColumnOp
  <2> DEFINE Refused(x) == \/ Has(x, op.column.name)
                           \/ x.columns # <<>> /\ Len(op.column.cells) # RowCount(x)
             In(x) == [schema |-> InsertAt(x.schema, Clamped(op.index, Len(x.columns)), Entry(op.column)),
                       columns |-> InsertAt(x.columns, Clamped(op.index, Len(x.columns)), op.column)]
  <2>2. ASSUME NEW x, Refused(x)
        PROVE  InsertColumn(op, x).ok = FALSE
    BY <2>2, RefuseMembers DEF InsertColumn
  <2>3. ASSUME NEW x, ~Refused(x)
        PROVE  InsertColumn(op, x) = Done(In(x))
    <3>1. ~Has(x, op.column.name)
      BY <2>3
    <3>2. ~(x.columns # <<>> /\ Len(op.column.cells) # RowCount(x))
      BY <2>3
    <3> QED
      BY <3>1, <3>2, Zenon DEF InsertColumn
  <2>4. Refused(t) <=> Refused(u)
    BY <1>1, <1>2
  <2>5. In(t).columns = In(u).columns
    OBVIOUS
  <2> HIDE DEF Refused, In
  <2>6. CASE Refused(t)
    BY <2>1, <2>2, <2>4, <2>6
  <2>7. CASE ~Refused(t)
    <3>1. ApplyColumnOp(op, t) = Done(In(t)) /\ ApplyColumnOp(op, u) = Done(In(u))
      BY <2>1, <2>3, <2>4, <2>7
    <3>2. PICK a : a = In(t)
      OBVIOUS
    <3>3. PICK b : b = In(u)
      OBVIOUS
    <3>4. a.columns = b.columns
      BY <2>5, <3>2, <3>3
    <3> QED
      BY <3>1, <3>2, <3>3, <3>4, BothDone
  <2> QED
    BY <2>6, <2>7
<1>7. CASE op.kind = "removeColumn"
  <2>1. ApplyColumnOp(op, t) = RemoveColumn(op, t) /\ ApplyColumnOp(op, u) = RemoveColumn(op, u)
    BY <1>7 DEF ApplyColumnOp
  <2> DEFINE Out(x) == [schema |-> Without(x.schema, op.name), columns |-> Without(x.columns, op.name)]
  <2>2. CASE ~Has(t, op.name)
    BY <1>2, <2>1, <2>2, RefuseMembers DEF RemoveColumn
  <2>3. CASE Has(t, op.name)
    <3>1. RemoveColumn(op, t) = Done(Out(t)) /\ RemoveColumn(op, u) = Done(Out(u))
      BY <1>2, <2>3, Zenon DEF RemoveColumn
    <3>2. Out(t).columns = Out(u).columns
      OBVIOUS
    <3> HIDE DEF Out
    <3>3. PICK a : a = Out(t)
      OBVIOUS
    <3>4. PICK b : b = Out(u)
      OBVIOUS
    <3>5. a.columns = b.columns
      BY <3>2, <3>3, <3>4
    <3>6. ApplyColumnOp(op, t) = Done(a) /\ ApplyColumnOp(op, u) = Done(b)
      BY <2>1, <3>1, <3>3, <3>4
    <3> QED
      BY <3>5, <3>6, BothDone
  <2> QED
    BY <2>2, <2>3
<1> QED
  BY <1>4, <1>5, <1>6, <1>7 DEF Kinds

\* An edit the codec takes, applied to a well-formed table, leaves a well-formed one.
LEMMA EditKeeps ==
  ASSUME PipelinesAreSound, NEW edit \in Edits, DecodeGridEdit(edit),
         NEW t \in Table, WellFormed(t), ApplyColumnOp(edit.op, t).ok,
         NEW u, u = ApplyColumnOp(edit.op, t).table
  PROVE  /\ u \in Table /\ WellFormed(u)
         /\ Invertible(edit.op) => Reversible(edit.op)
<1>1. IsOp(edit.op) /\ DecodeColumnOp(edit.op)
  BY EditsAssumption DEF DecodeGridEdit
<1>2. CASE edit.op.kind \in Kinds
  <2>1. Reversible(edit.op)
    BY <1>1, <1>2 DEF Reversible
  <2> QED
    BY <2>1, EveryOpIsTakenBack
<1>3. CASE edit.op \in [kind : {"appendRows"}, rows : Seq(Seq(RowCell))]
  <2>1. edit.op.kind = "appendRows"
    BY <1>3
  <2>2. ApplyColumnOp(edit.op, t) = AppendRows(edit.op, t)
    BY <2>1 DEF ApplyColumnOp
  <2>3. u \in Table /\ WellFormed(u)
    BY <1>3, <2>2, AppendRowsKeeps
  <2> QED
    BY <2>1, <2>3 DEF Invertible
<1>4. CASE edit.op.kind = "applyTransform"
  <2>1. ApplyColumnOp(edit.op, t) = ApplyTransform(edit.op, t)
    BY <1>4 DEF ApplyColumnOp
  <2>2. PICK r : r = EvalPipeline(edit.op.pipeline, t)
    OBVIOUS
  <2>3. r.ok /\ ApplyTransform(edit.op, t) = Done(r.table)
    <3>1. ApplyTransform(edit.op, t) = IF r.ok THEN Done(r.table) ELSE Refuse("transformRejected")
      BY <2>2, Zenon DEF ApplyTransform
    <3>2. r.ok
      BY <2>1, <3>1, RefuseMembers
    <3> QED
      BY <3>1, <3>2
  <2>4. r.table \in Table /\ WellFormed(r.table)
    BY <1>4, <2>2, <2>3 DEF PipelinesAreSound
  <2> QED
    BY <1>4, <2>1, <2>3, <2>4, DoneMembers DEF Invertible
<1>5. edit.op.kind \in Kinds \/ edit.op.kind = "applyTransform"
      \/ edit.op \in [kind : {"appendRows"}, rows : Seq(Seq(RowCell))]
  BY <1>1 DEF IsOp, Kinds, RowCell
<1> QED
  BY <1>2, <1>3, <1>4, <1>5

-----------------------------------------------------------------------------
(***************************************************************************)
(* The history.                                                            *)
(***************************************************************************)
\* A list of entries, whatever they are.
IsList(s) == \E S : s \in Seq(S)

\* Undo and redo are lists, and together within the depth.
HistInv == IsList(undo) /\ IsList(redo) /\ HistoryIsBounded

\* A history keeps at least one edit.
LEMMA DepthIsPositive == Depth \in Nat /\ Depth >= 1
BY CapacityAssumption DEF Depth

\* Putting an entry in front of a list makes it one longer.
LEMMA PrependedList ==
  ASSUME NEW s, IsList(s), NEW e
  PROVE  IsList(<<e>> \o s) /\ Len(<<e>> \o s) = Len(s) + 1 /\ Len(s) \in Nat
<1>1. PICK S : s \in Seq(S)
  BY DEF IsList
<1>2. <<e>> \in Seq(S \cup {e}) /\ s \in Seq(S \cup {e})
  BY <1>1
<1>3. <<e>> \o s \in Seq(S \cup {e}) /\ Len(<<e>> \o s) = Len(s) + 1 /\ Len(s) \in Nat
  BY <1>2
<1> QED
  BY <1>3 DEF IsList

\* The tail of a list that is not empty is one shorter.
LEMMA TailOfList ==
  ASSUME NEW s, IsList(s), s # <<>>
  PROVE  IsList(Tail(s)) /\ Len(Tail(s)) = Len(s) - 1 /\ Len(s) \in Nat /\ Len(s) >= 1
<1>1. PICK S : s \in Seq(S)
  BY DEF IsList
<1>2. Tail(s) \in Seq(S) /\ Len(Tail(s)) = Len(s) - 1 /\ Len(s) \in Nat /\ Len(s) >= 1
  BY <1>1
<1> QED
  BY <1>2 DEF IsList

\* A pushed list holds at most one entry more than the undo list, and at most Depth.
LEMMA PushedList ==
  ASSUME IsList(undo), NEW e
  PROVE  /\ IsList(Pushed(e))
         /\ Len(Pushed(e)) \in Nat
         /\ Len(Pushed(e)) <= Len(undo) + 1
         /\ Len(Pushed(e)) <= Depth
<1> DEFINE whole == <<e>> \o undo
           n == IF Len(undo) < Depth THEN Len(undo) + 1 ELSE Depth
<1>1. IsList(whole) /\ Len(whole) = Len(undo) + 1 /\ Len(undo) \in Nat
  BY PrependedList
<1>2. n \in Nat /\ n >= 1 /\ n <= Len(whole) /\ n <= Depth
  BY <1>1, DepthIsPositive
<1>3. PICK S : whole \in Seq(S)
  BY <1>1 DEF IsList
<1> HIDE DEF whole, n
<1>4. SubSeq(whole, 1, n) \in Seq(S) /\ Len(SubSeq(whole, 1, n)) = n
  BY <1>2, <1>3
<1>5. Pushed(e) = SubSeq(whole, 1, n)
  BY DEF Pushed, whole, n
<1> QED
  BY <1>1, <1>2, <1>4, <1>5 DEF IsList

\* Nothing is a list of no entries.
LEMMA EmptyList == IsList(<<>>) /\ Len(<<>>) = 0
<1>1. <<>> \in Seq({}) /\ Len(<<>>) = 0
  OBVIOUS
<1> QED
  BY <1>1 DEF IsList

\* Every edit and gesture keeps both lists within the depth.
LEMMA HistInductive == HistInv /\ [Next]_vars => HistInv'
<1> SUFFICES ASSUME HistInv, [Next]_vars
             PROVE  HistInv'
  OBVIOUS
<1> USE DEF HistInv, HistoryIsBounded
<1>1. ASSUME NEW edit \in Edits, Apply(edit)
      PROVE  HistInv'
  <2>1. redo' = <<>> /\ (undo' = <<>> \/ \E e : undo' = Pushed(e))
    BY <1>1 DEF Apply
  <2>2. IsList(undo') /\ Len(undo') \in Nat /\ Len(undo') <= Depth
    BY <2>1, PushedList, EmptyList, DepthIsPositive
  <2>3. IsList(undo)' /\ IsList(redo)'
    BY <2>1, <2>2, EmptyList DEF IsList
  <2> QED
    BY <2>1, <2>2, <2>3, EmptyList, DepthIsPositive DEF Depth
<1>2. CASE Undo
  <2>1. undo # <<>> /\ undo' = Tail(undo) /\ redo' = <<Head(undo)>> \o redo
    BY <1>2 DEF Undo
  <2>2. IsList(undo') /\ Len(undo') = Len(undo) - 1 /\ Len(undo) \in Nat
    BY <2>1, TailOfList
  <2>3. IsList(redo') /\ Len(redo') = Len(redo) + 1 /\ Len(redo) \in Nat
    BY <2>1, PrependedList
  <2>4. IsList(undo)' /\ IsList(redo)'
    BY <2>2, <2>3 DEF IsList
  <2> QED
    BY <2>2, <2>3, <2>4, DepthIsPositive DEF Depth
<1>3. CASE Redo
  <2>1. redo # <<>> /\ redo' = Tail(redo) /\ undo' = Pushed(Head(redo))
    BY <1>3 DEF Redo
  <2>2. IsList(redo') /\ Len(redo') = Len(redo) - 1 /\ Len(redo) \in Nat
    BY <2>1, TailOfList
  <2>3. IsList(undo') /\ Len(undo') \in Nat /\ Len(undo') <= Len(undo) + 1
    BY <2>1, PushedList
  <2>4. Len(undo) \in Nat
    BY EmptyList, PrependedList
  <2>5. IsList(undo)' /\ IsList(redo)'
    BY <2>2, <2>3 DEF IsList
  <2> QED
    BY <2>2, <2>3, <2>4, <2>5, DepthIsPositive DEF Depth
<1>4. CASE UNCHANGED vars
  BY <1>4 DEF vars, IsList, Depth
<1> QED
  BY <1>1, <1>2, <1>3, <1>4 DEF Next

\* The undone and the undoable edits together stay within the capacity the history
\* was given, for any tables, edits and answers of the pipeline: redo is never
\* truncated (grid_edit.rs:499), and needs no truncation.
THEOREM HistoryAlwaysBounded == Spec => []HistoryIsBounded
<1>1. Init => HistInv
  BY EmptyList, DepthIsPositive DEF Init, HistInv, HistoryIsBounded
<1>2. HistInv => HistoryIsBounded
  BY DEF HistInv
<1> QED
  BY <1>1, <1>2, HistInductive, PTL DEF Spec

----------------------------------------------------------------------------
(* What the history's ops lead to.                                         *)

SoundTable(t) == t \in Table /\ WellFormed(t)

Takes(op, t, u) == ApplyColumnOp(op, t).ok /\ ApplyColumnOp(op, t).table.columns = u.columns

TwoWay(e) == Reversible(e.op) /\ Reversible(e.inverse)

\* The op of an entry that leads away from the table, and the one that leads back.
Out(way, e) == IF way = "undo" THEN e.inverse ELSE e.op
Home(way, e) == IF way = "undo" THEN e.op ELSE e.inverse

\* The tables f that the entries of s lead to from t, one after the other, and back,
\* on the undo list's way or on the redo list's.
Chain(way, s, t, f) ==
  /\ f[0] = t
  /\ \A i \in 0 .. Len(s) : SoundTable(f[i])
  /\ \A i \in 1 .. Len(s) :
       /\ TwoWay(s[i])
       /\ Takes(Out(way, s[i]), f[i - 1], f[i]) /\ Takes(Home(way, s[i]), f[i], f[i - 1])

\* What such tables show.
Docs(s, f) == [i \in 1 .. Len(s) |-> Shown(f[i])]

\* No entries lead nowhere.
LEMMA ChainOfNone ==
  ASSUME NEW way, NEW t, SoundTable(t)
  PROVE  \E f : Chain(way, <<>>, t, f) /\ Docs(<<>>, f) = <<>>
<1> DEFINE f == [i \in Nat |-> t]
<1>1. Len(<<>>) = 0
  OBVIOUS
<1>2. \A i \in 0 .. 0 : f[i] = t
  OBVIOUS
<1>3. f[0] = t
  OBVIOUS
<1>4. Docs(<<>>, f) = <<>>
  BY <1>1 DEF Docs
<1> HIDE DEF f
<1>5. Chain(way, <<>>, t, f)
  BY <1>1, <1>2, <1>3 DEF Chain
<1> QED
  BY <1>4, <1>5

Prepended(e, s) == <<e>> \o s
First(s, n) == SubSeq(s, 1, n)
Rest(s) == Tail(s)

\* An entry in front of the list, and one table more.
LEMMA Listed ==
  ASSUME NEW s, IsList(s), NEW e
  PROVE  /\ Len(<<e>> \o s) = Len(s) + 1 /\ Len(s) \in Nat
         /\ (<<e>> \o s)[1] = e /\ \A i \in 1 .. Len(s) : (<<e>> \o s)[i + 1] = s[i]
<1>1. PICK S : s \in Seq(S)
  BY DEF IsList
<1>2. PICK R : R = S \cup {e}
  OBVIOUS
<1>3. <<e>> \in Seq(R) /\ s \in Seq(R)
  BY <1>1, <1>2
<1> QED
  BY <1>3

\* An entry in front of a chain leads to where the chain began.
LEMMA ChainMore ==
  ASSUME NEW way, NEW s, IsList(s), NEW t, NEW f, Chain(way, s, t, f),
         NEW u, SoundTable(u), NEW e, TwoWay(e),
         Takes(Out(way, e), u, t), Takes(Home(way, e), t, u)
  PROVE  \E g : /\ Chain(way, Prepended(e, s), u, g)
                /\ Docs(Prepended(e, s), g) = Prepended(Shown(t), Docs(s, f))
<1> DEFINE g == [i \in Nat |-> IF i = 0 THEN u ELSE f[i - 1]]
           es == <<e>> \o s
           n == Len(s)
<1>1. /\ Len(es) = n + 1 /\ n \in Nat
      /\ es[1] = e /\ \A i \in 1 .. n : es[i + 1] = s[i]
  BY Listed
<1>2. g[0] = u /\ \A i \in Nat : g[i + 1] = f[i]
  OBVIOUS
<1> HIDE DEF g, es
<1>3. f[0] = t /\ \A i \in 0 .. n : SoundTable(f[i])
  BY DEF Chain
<1>4. \A i \in 0 .. n + 1 : SoundTable(g[i])
  <2> TAKE i \in 0 .. n + 1
  <2>1. CASE i = 0
    BY <1>2, <2>1
  <2>2. CASE i # 0
    <3>1. i - 1 \in 0 .. n /\ i - 1 \in Nat /\ (i - 1) + 1 = i
      BY <1>1, <2>2
    <3>2. g[i] = f[i - 1]
      BY <1>2, <3>1
    <3> QED
      BY <1>3, <3>1, <3>2
  <2> QED
    BY <2>1, <2>2
<1>5. ASSUME NEW i \in 1 .. n + 1
      PROVE  /\ TwoWay(es[i])
             /\ Takes(Out(way, es[i]), g[i - 1], g[i]) /\ Takes(Home(way, es[i]), g[i], g[i - 1])
  <2>1. CASE i = 1
    <3>1. es[i] = e /\ g[i - 1] = u /\ g[i] = t
      <4>1. i - 1 = 0 /\ i = 0 + 1 /\ 0 \in Nat
        BY <2>1
      <4> QED
        BY <1>1, <1>2, <1>3, <2>1, <4>1
    <3> QED
      BY <3>1
  <2>2. CASE i # 1
    <3>1. i - 1 \in 1 .. n /\ (i - 1) + 1 = i /\ i - 1 \in Nat /\ (i - 1) - 1 \in Nat
          /\ ((i - 1) - 1) + 1 = i - 1
      BY <1>1, <2>2
    <3>2. es[i] = s[i - 1] /\ g[i] = f[i - 1] /\ g[i - 1] = f[(i - 1) - 1]
      BY <1>1, <1>2, <3>1
    <3> QED
      BY <3>1, <3>2 DEF Chain
  <2> QED
    BY <2>1, <2>2
<1>6. Chain(way, es, u, g)
  BY <1>1, <1>2, <1>4, <1>5 DEF Chain
<1>7. Docs(es, g) = <<Shown(t)>> \o Docs(s, f)
  <2> DEFINE d == Docs(s, f)
             w == Docs(es, g)
  <2>1. PICK S : S = {Shown(f[i]) : i \in 0 .. n}
    OBVIOUS
  <2>2. d \in Seq(S) /\ Len(d) = n /\ \A i \in 1 .. n : d[i] = Shown(f[i])
    <3>1. \A i \in 1 .. n : Shown(f[i]) \in S
      BY <1>1, <2>1
    <3> QED
      BY <1>1, <3>1 DEF Docs
  <2>3. ASSUME NEW i \in 1 .. n + 1
        PROVE  Shown(g[i]) \in S /\ Shown(g[i]) = IF i = 1 THEN Shown(t) ELSE d[i - 1]
    <3>1. i - 1 \in 0 .. n /\ i - 1 \in Nat /\ (i - 1) + 1 = i
      BY <1>1
    <3>2. g[i] = f[i - 1]
      BY <1>2, <3>1
    <3>3. i # 1 => i - 1 \in 1 .. n
      BY <1>1
    <3>4. i = 1 => i - 1 = 0
      OBVIOUS
    <3> HIDE DEF d
    <3> QED
      BY <1>3, <2>1, <2>2, <3>1, <3>2, <3>3, <3>4
  <2>4. w \in Seq(S) /\ Len(w) = n + 1 /\ \A i \in 1 .. n + 1 : w[i] = Shown(g[i])
    <3>1. w = [i \in 1 .. n + 1 |-> Shown(g[i])]
      BY <1>1 DEF Docs
    <3>2. \A i \in 1 .. n + 1 : Shown(g[i]) \in S
      BY <2>3
    <3> HIDE DEF w
    <3>3. w \in [1 .. n + 1 -> S] /\ n + 1 \in Nat
      BY <1>1, <3>1, <3>2
    <3> QED
      BY <3>1, <3>3
  <2>5. Shown(t) \in S
    BY <1>1, <1>3, <2>1
  <2> HIDE DEF d, w
  <2>6. PICK x \in S : x = Shown(t)
    BY <2>5
  <2>7. PICK xd : xd = <<x>> \o d
    OBVIOUS
  <2>8. xd \in Seq(S) /\ Len(xd) = n + 1
        /\ \A i \in 1 .. n + 1 : xd[i] = IF i = 1 THEN x ELSE d[i - 1]
    <3>1. <<x>> \in Seq(S) /\ Len(<<x>>) = 1 /\ <<x>>[1] = x
      OBVIOUS
    <3>2. PICK xs \in Seq(S) : xs = <<x>>
      BY <3>1
    <3>3. d \in Seq(S) /\ xs \in Seq(S)
      BY <2>2, <3>2
    <3>4. /\ xs \o d \in Seq(S) /\ Len(xs \o d) = Len(xs) + Len(d)
          /\ \A k \in 1 .. Len(xs) + Len(d) :
               (xs \o d)[k] = IF k <= Len(xs) THEN xs[k] ELSE d[k - Len(xs)]
      BY <3>3, Concatenated
    <3>5. Len(xs) = 1 /\ xs[1] = x /\ xd = xs \o d
      BY <2>7, <3>1, <3>2
    <3> QED
      BY <1>1, <2>2, <3>4, <3>5
  <2>9. w = xd
    <3>1. \A i \in 1 .. n + 1 : w[i] = xd[i]
      BY <2>3, <2>4, <2>6, <2>8
    <3>2. Len(w) = Len(xd) /\ \A i \in 1 .. Len(w) : w[i] = xd[i]
      BY <2>4, <2>8, <3>1
    <3>3. w \in Seq(S) /\ xd \in Seq(S)
      BY <2>4, <2>8
    <3> QED
      BY <3>2, <3>3, SeqEqual
  <2> QED
    BY <2>6, <2>7, <2>9 DEF d, w
<1> QED
  BY <1>6, <1>7, Zenon DEF es, Prepended

\* The first entry away, and the table it led to is where the rest starts.
LEMMA ChainTail ==
  ASSUME NEW way, NEW s, IsList(s), s # <<>>, NEW t, NEW f, Chain(way, s, t, f)
  PROVE  /\ \E g : Chain(way, Rest(s), f[1], g) /\ Docs(Rest(s), g) = Rest(Docs(s, f))
         /\ Docs(s, f) # <<>> /\ Head(Docs(s, f)) = Shown(f[1])
         /\ SoundTable(f[1]) /\ TwoWay(Head(s))
         /\ Takes(Out(way, Head(s)), t, f[1]) /\ Takes(Home(way, Head(s)), f[1], t)
<1> DEFINE g == [i \in Nat |-> f[i + 1]]
           n == Len(s)
           ts == Tail(s)
<1>1. /\ n \in Nat /\ n >= 1 /\ Len(ts) = n - 1 /\ Head(s) = s[1]
      /\ \A i \in 1 .. n - 1 : ts[i] = s[i + 1]
  <2>1. PICK S : s \in Seq(S)
    BY DEF IsList
  <2> QED
    BY <2>1
<1>2. \A i \in Nat : g[i] = f[i + 1]
  OBVIOUS
<1> HIDE DEF g, ts
<1>3. \A i \in 0 .. n - 1 : SoundTable(g[i])
  <2> TAKE i \in 0 .. n - 1
  <2>1. i \in Nat /\ i + 1 \in 0 .. n
    BY <1>1
  <2> QED
    BY <1>2, <2>1 DEF Chain
<1>4. ASSUME NEW i \in 1 .. n - 1
      PROVE  /\ TwoWay(ts[i])
             /\ Takes(Out(way, ts[i]), g[i - 1], g[i]) /\ Takes(Home(way, ts[i]), g[i], g[i - 1])
  <2>1. i + 1 \in 1 .. n /\ i \in Nat /\ i - 1 \in Nat /\ (i + 1) - 1 = i /\ (i - 1) + 1 = i
    BY <1>1
  <2>2. ts[i] = s[i + 1] /\ g[i] = f[i + 1] /\ g[i - 1] = f[(i + 1) - 1]
    BY <1>1, <1>2, <2>1
  <2> QED
    BY <2>1, <2>2 DEF Chain
<1>5. g[0] = f[1]
  <2>1. 0 \in Nat /\ 0 + 1 = 1
    OBVIOUS
  <2> QED
    BY <1>2, <2>1
<1>6. Chain(way, ts, f[1], g)
  BY <1>1, <1>3, <1>4, <1>5 DEF Chain
<1>7. /\ SoundTable(f[1]) /\ TwoWay(s[1])
      /\ Takes(Out(way, s[1]), t, f[1]) /\ Takes(Home(way, s[1]), f[1], t)
  <2>1. 1 \in 1 .. n /\ 1 \in 0 .. n /\ 1 - 1 = 0
    BY <1>1
  <2>2. f[0] = t
    BY DEF Chain
  <2> QED
    BY <2>1, <2>2 DEF Chain
<1>8. /\ Docs(s, f) # <<>> /\ Head(Docs(s, f)) = Shown(f[1])
      /\ Docs(ts, g) = Tail(Docs(s, f))
  <2> DEFINE d == Docs(s, f)
             w == Docs(ts, g)
  <2>1. PICK S : S = {Shown(f[i]) : i \in 1 .. n}
    OBVIOUS
  <2>2. d \in Seq(S) /\ Len(d) = n /\ \A i \in 1 .. n : d[i] = Shown(f[i])
    <3>1. \A i \in 1 .. n : Shown(f[i]) \in S
      BY <2>1
    <3> QED
      BY <1>1, <3>1 DEF Docs
  <2>3. PICK td : td = Tail(d)
    OBVIOUS
  <2>4. d # <<>> /\ Head(d) = d[1] /\ td \in Seq(S) /\ Len(td) = n - 1
        /\ \A i \in 1 .. n - 1 : td[i] = d[i + 1]
    <3> HIDE DEF d
    <3> QED
      BY <1>1, <2>2, <2>3
  <2>5. w = [i \in 1 .. n - 1 |-> Shown(g[i])]
    BY <1>1 DEF Docs
  <2>6. ASSUME NEW i \in 1 .. n - 1
        PROVE  Shown(g[i]) = td[i] /\ Shown(g[i]) \in S
    <3>1. i \in Nat /\ i + 1 \in 1 .. n
      BY <1>1
    <3> HIDE DEF d
    <3> QED
      BY <1>2, <2>1, <2>2, <2>4, <3>1
  <2> HIDE DEF d, w
  <2>7. w \in Seq(S) /\ Len(w) = n - 1 /\ \A i \in 1 .. n - 1 : w[i] = td[i]
    <3>1. w \in [1 .. n - 1 -> S] /\ n - 1 \in Nat
      BY <1>1, <2>5, <2>6
    <3> QED
      BY <2>5, <2>6, <3>1
  <2>8. w = td
    <3>1. Len(w) = Len(td) /\ \A i \in 1 .. Len(w) : w[i] = td[i]
      BY <2>4, <2>7
    <3> QED
      BY <2>4, <2>7, <3>1, SeqEqual
  <2>9. 1 \in 1 .. n
    BY <1>1
  <2> QED
    BY <2>2, <2>3, <2>4, <2>8, <2>9 DEF d, w
<1> QED
  <2>1. \E h : Chain(way, Rest(s), f[1], h) /\ Docs(Rest(s), h) = Rest(Docs(s, f))
    BY <1>6, <1>8, Zenon DEF ts, Rest
  <2> QED
    BY <1>1, <1>7, <1>8, <2>1

\* The nearest entries are a list of their own.
LEMMA ChainPrefix ==
  ASSUME NEW way, NEW s, IsList(s), NEW t, NEW f, Chain(way, s, t, f), NEW n \in 0 .. Len(s)
  PROVE  /\ Chain(way, First(s, n), t, f)
         /\ Docs(First(s, n), f) = First(Docs(s, f), n)
<1> DEFINE p == SubSeq(s, 1, n)
<1>1. PICK S : s \in Seq(S)
  BY DEF IsList
<1>2. Len(s) \in Nat /\ Len(p) = n /\ \A i \in 1 .. n : p[i] = s[i]
  BY <1>1
<1> HIDE DEF p
<1>3. Chain(way, p, t, f)
  <2>1. \A i \in 0 .. n : i \in 0 .. Len(s)
    BY <1>2
  <2>2. \A i \in 1 .. n : i \in 1 .. Len(s)
    BY <1>2
  <2> QED
    BY <1>2, <2>1, <2>2 DEF Chain
<1>4. Docs(p, f) = SubSeq(Docs(s, f), 1, n)
  <2>1. Docs(p, f) = [i \in 1 .. n |-> Shown(f[i])]
    BY <1>2 DEF Docs
  <2>2. PICK d : d = Docs(s, f)
    OBVIOUS
  <2>3. PICK D : D = {Shown(f[i]) : i \in 1 .. Len(s)}
    OBVIOUS
  <2>4. d \in Seq(D) /\ Len(d) = Len(s) /\ \A i \in 1 .. Len(s) : d[i] = Shown(f[i])
    <3>1. \A i \in 1 .. Len(s) : Shown(f[i]) \in D
      BY <2>3
    <3> QED
      BY <1>2, <2>2, <3>1 DEF Docs
  <2>5. SubSeq(d, 1, n) = [i \in 1 .. n |-> d[i]]
    BY <1>2, <2>4
  <2>6. \A i \in 1 .. n : d[i] = Shown(f[i])
    BY <1>2, <2>4
  <2>7. [i \in 1 .. n |-> d[i]] = [i \in 1 .. n |-> Shown(f[i])]
    BY <2>6
  <2> QED
    BY <2>1, <2>2, <2>5, <2>7
<1> QED
  BY <1>3, <1>4, Zenon DEF p, First

\* Two well-formed tables with the same columns show the same.
LEMMA ShownByColumns ==
  ASSUME NEW t, SoundTable(t), NEW u, SoundTable(u), t.columns = u.columns
  PROVE  Shown(t) = Shown(u)
<1>1. /\ t \in Table /\ u \in Table /\ Len(t.schema) = Len(t.columns) /\ Len(u.schema) = Len(u.columns)
      /\ \A i \in DOMAIN t.columns : Sound(t, i) /\ Sound(u, i)
  BY WellFormedIs DEF SoundTable
<1>2. DOMAIN t.schema = DOMAIN t.columns /\ DOMAIN u.schema = DOMAIN t.columns
  BY <1>1, TableMembers
<1>3. \A i \in DOMAIN t.columns : t.schema[i].name = u.schema[i].name
  BY <1>1 DEF Sound
<1>4. [i \in DOMAIN t.schema |-> t.schema[i].name] = [i \in DOMAIN u.schema |-> u.schema[i].name]
  BY <1>2, <1>3
<1> QED
  BY <1>4 DEF Shown

\* An op leads from a table with the same columns to the same columns.
LEMMA TakesByColumns ==
  ASSUME NEW op, Reversible(op), NEW t, NEW u, Takes(op, t, u),
         NEW v, v.columns = t.columns, NEW w, w.columns = u.columns
  PROVE  Takes(op, v, w)
<1>1. op.kind \in Kinds
  BY DEF Reversible
<1>2. /\ ApplyColumnOp(op, t).ok = ApplyColumnOp(op, v).ok
      /\ ApplyColumnOp(op, t).ok =>
           ApplyColumnOp(op, t).table.columns = ApplyColumnOp(op, v).table.columns
  BY <1>1, ColumnsDecide
<1> QED
  BY <1>2 DEF Takes

\* A table with the same columns may stand in for the one the list starts at.
LEMMA ChainByColumns ==
  ASSUME NEW way, NEW s, IsList(s), NEW t, NEW f, Chain(way, s, t, f),
         NEW u, SoundTable(u), u.columns = t.columns
  PROVE  \E g : Chain(way, s, u, g) /\ Docs(s, g) = Docs(s, f)
<1> DEFINE g == [i \in Nat |-> IF i = 0 THEN u ELSE f[i]]
           n == Len(s)
<1>1. n \in Nat
  <2>1. PICK S : s \in Seq(S)
    BY DEF IsList
  <2> QED
    BY <2>1
<1>2. g[0] = u /\ \A i \in 1 .. n : g[i] = f[i]
  BY <1>1
<1> HIDE DEF g
<1>3. f[0] = t
  BY DEF Chain
<1>4. \A i \in 0 .. n : SoundTable(g[i]) /\ g[i].columns = f[i].columns
  <2> TAKE i \in 0 .. n
  <2>1. CASE i = 0
    BY <1>2, <1>3, <2>1
  <2>2. CASE i # 0
    <3>1. i \in 1 .. n
      BY <1>1, <2>2
    <3> QED
      BY <1>2, <3>1 DEF Chain
  <2> QED
    BY <2>1, <2>2
<1>5. ASSUME NEW i \in 1 .. n
      PROVE  /\ TwoWay(s[i])
             /\ Takes(Out(way, s[i]), g[i - 1], g[i]) /\ Takes(Home(way, s[i]), g[i], g[i - 1])
  <2>1. i - 1 \in 0 .. n /\ i \in 0 .. n
    BY <1>1
  <2>2. /\ TwoWay(s[i])
        /\ Takes(Out(way, s[i]), f[i - 1], f[i]) /\ Takes(Home(way, s[i]), f[i], f[i - 1])
    BY DEF Chain
  <2>3. Reversible(Out(way, s[i])) /\ Reversible(Home(way, s[i]))
    BY <2>2 DEF TwoWay, Out, Home
  <2>4. g[i].columns = f[i].columns /\ g[i - 1].columns = f[i - 1].columns
    BY <1>4, <2>1
  <2> QED
    BY <2>2, <2>3, <2>4, TakesByColumns
<1>6. Chain(way, s, u, g)
  BY <1>2, <1>4, <1>5 DEF Chain
<1>7. Docs(s, g) = Docs(s, f)
  BY <1>2 DEF Docs
<1> QED
  BY <1>6, <1>7

OpThen(c, t, op) == ApplyColumnOp(op, t).table
Walk == INSTANCE SequenceFolds WITH Op <- OpThen

\* A function from 1 .. n is as long as n.
LEMMA LengthIs == ASSUME NEW S, NEW n \in Nat, NEW s \in [1 .. n -> S] PROVE Len(s) = n
OBVIOUS

\* The ops of a list, applied one after the other, show what its tables show.
LEMMA WalkedIs ==
  ASSUME NEW way, NEW s, IsList(s), NEW t, NEW f, Chain(way, s, t, f),
         NEW ops, ops = [i \in DOMAIN s |-> Out(way, s[i])]
  PROVE  Walked(ops, t) = Docs(s, f)
<1> DEFINE n == Len(s)
           g == CHOOSE g : g = [i \in 0 .. Len(ops) |->
                                  IF i = 0 THEN t ELSE ApplyColumnOp(ops[i], g[i - 1]).table]
<1>1. n \in Nat /\ DOMAIN s = 1 .. n
  <2>1. PICK S : s \in Seq(S)
    BY DEF IsList
  <2> QED
    BY <2>1
<1>2. Len(ops) = n /\ \A i \in 1 .. n : ops[i] = Out(way, s[i])
  <2>1. PICK S : S = {Out(way, s[i]) : i \in 1 .. n}
    OBVIOUS
  <2>2. \A i \in 1 .. n : Out(way, s[i]) \in S
    BY <2>1
  <2>3. ops \in [1 .. n -> S]
    BY <1>1, <2>2
  <2>4. \A i \in 1 .. n : ops[i] = Out(way, s[i])
    BY <1>1
  <2>5. Len(ops) = n
    BY <1>1, <2>3, LengthIs
  <2> QED
    BY <2>4, <2>5
<1>3. g = [i \in 0 .. Len(ops) |-> IF i = 0 THEN t ELSE ApplyColumnOp(ops[i], g[i - 1]).table]
  <2>1. Len(ops) \in Nat
    BY <1>1, <1>2
  <2>2. \E h : h = [i \in 0 .. Len(ops) |-> IF i = 0 THEN t ELSE OpThen(t, h[i - 1], ops[i])]
    <3>1. PICK m \in Nat : m = Len(ops)
      BY <2>1
    <3>2. m \in Nat
      BY <3>1
    <3>3. \E h : Walk!IsRecursion(h, m, t, t, ops)
      BY <3>2, Walk!RecursionExists
    <3> QED
      BY <3>1, <3>3, Zenon DEF Walk!IsRecursion
  <2>3. \E h : h = [i \in 0 .. Len(ops) |-> IF i = 0 THEN t ELSE ApplyColumnOp(ops[i], h[i - 1]).table]
    BY <2>2, Zenon DEF OpThen
  <2> QED
    BY <2>3, Zenon
<1>4. Walked(ops, t) = [i \in 1 .. Len(ops) |-> Shown(g[i])]
  BY Zenon DEF Walked
<1> HIDE DEF g, n
<1>5. g[0] = t /\ \A i \in 1 .. n : g[i] = ApplyColumnOp(ops[i], g[i - 1]).table
  <2>1. 0 \in 0 .. n /\ \A i \in 1 .. n : i \in 0 .. n /\ i # 0
    BY <1>1
  <2> QED
    BY <1>2, <1>3, <2>1, Zenon
<1> DEFINE T == {i \in Nat : i <= n => SoundTable(g[i]) /\ g[i].columns = f[i].columns}
<1>6. 0 \in T
  <2>1. 0 \in 0 .. n
    BY <1>1
  <2>2. f[0] = t /\ SoundTable(t)
    BY <2>1 DEF Chain, n
  <2> QED
    BY <1>5, <2>2
<1>7. ASSUME NEW k \in T
      PROVE  k + 1 \in T
  <2> SUFFICES ASSUME k + 1 <= n
               PROVE  SoundTable(g[k + 1]) /\ g[k + 1].columns = f[k + 1].columns
    OBVIOUS
  <2>1. k + 1 \in 1 .. n /\ (k + 1) - 1 = k /\ SoundTable(g[k]) /\ g[k].columns = f[k].columns
    BY <1>1
  <2>2. PICK op : op = Out(way, s[k + 1])
    OBVIOUS
  <2>3. Reversible(op) /\ Takes(op, f[k], f[k + 1])
    <3>1. /\ TwoWay(s[k + 1])
          /\ Takes(Out(way, s[k + 1]), f[(k + 1) - 1], f[k + 1])
      BY <2>1 DEF Chain, n
    <3> QED
      BY <2>1, <2>2, <3>1 DEF TwoWay, Out
  <2>4. Takes(op, g[k], f[k + 1])
    BY <2>1, <2>3, TakesByColumns
  <2>5. g[k + 1] = ApplyColumnOp(op, g[k]).table
    BY <1>2, <1>5, <2>1, <2>2
  <2>6. ApplyColumnOp(op, g[k]).ok /\ ApplyColumnOp(op, g[k]).table.columns = f[k + 1].columns
    BY <2>4 DEF Takes
  <2>7. g[k] \in Table /\ WellFormed(g[k])
    BY <2>1 DEF SoundTable
  <2>8. ApplyColumnOp(op, g[k]).table \in Table /\ WellFormed(ApplyColumnOp(op, g[k]).table)
    BY <2>3, <2>6, <2>7, EveryOpIsTakenBack
  <2> QED
    BY <2>5, <2>6, <2>8 DEF SoundTable
<1> HIDE DEF T
<1>8. T = Nat
  <2>1. T \in SUBSET Nat
    BY DEF T
  <2> QED
    BY <1>6, <1>7, <2>1, Walk!NatSetInduction
<1>9. ASSUME NEW i \in 1 .. n
      PROVE  Shown(g[i]) = Shown(f[i])
  <2>1. i \in T /\ i <= n /\ i \in 0 .. n
    BY <1>1, <1>8
  <2>2. SoundTable(g[i]) /\ g[i].columns = f[i].columns
    BY <2>1 DEF T
  <2>3. SoundTable(f[i])
    BY <2>1 DEF Chain, n
  <2> QED
    BY <2>2, <2>3, ShownByColumns
<1> QED
  BY <1>2, <1>4, <1>9 DEF Docs, n

----------------------------------------------------------------------------
(* The history, step by step.                                              *)

\* The table is well formed, and the two lists lead away from it and back.
TableInv ==
  /\ IsList(undo) /\ IsList(redo)
  /\ SoundTable(table)
  /\ \E f : Chain("undo", undo, table, f)
  /\ \E f : Chain("redo", redo, table, f)

\* The invariant gives the two properties of the table.
LEMMA TableInvGives ==
  ASSUME TableInv
  PROVE  TableIsWellFormed /\ GesturesAreNeverRefused
<1>1. ASSUME NEW way, NEW s, IsList(s), s # <<>>, \E f : Chain(way, s, table, f)
      PROVE  ApplyColumnOp(Out(way, Head(s)), table).ok
  <2>1. PICK f : Chain(way, s, table, f)
    BY <1>1
  <2>2. Takes(Out(way, Head(s)), table, f[1])
    BY <1>1, <2>1, ChainTail
  <2> QED
    BY <2>2 DEF Takes
<1>2. undo # <<>> => ApplyColumnOp(Head(undo).inverse, table).ok
  BY <1>1 DEF TableInv, Out
<1>3. redo # <<>> => ApplyColumnOp(Head(redo).op, table).ok
  BY <1>1 DEF TableInv, Out
<1> QED
  BY <1>2, <1>3 DEF TableInv, TableIsWellFormed, GesturesAreNeverRefused, SoundTable

\* What undo and redo would put back, from the tables the lists lead to.
LEMMA UnwoundIs ==
  ASSUME NEW s, IsList(s), NEW t, NEW f, Chain("undo", s, t, f)
  PROVE  Walked([i \in DOMAIN s |-> s[i].inverse], t) = Docs(s, f)
<1>1. [i \in DOMAIN s |-> s[i].inverse] = [i \in DOMAIN s |-> Out("undo", s[i])]
  BY DEF Out
<1>2. PICK ops : ops = [i \in DOMAIN s |-> Out("undo", s[i])]
  OBVIOUS
<1>3. Walked(ops, t) = Docs(s, f)
  BY <1>2, WalkedIs
<1> QED
  BY <1>1, <1>2, <1>3, Zenon

\* The same of redo.
LEMMA RewoundIs ==
  ASSUME NEW s, IsList(s), NEW t, NEW f, Chain("redo", s, t, f)
  PROVE  Walked([i \in DOMAIN s |-> s[i].op], t) = Docs(s, f)
<1>1. [i \in DOMAIN s |-> s[i].op] = [i \in DOMAIN s |-> Out("redo", s[i])]
  BY DEF Out
<1>2. PICK ops : ops = [i \in DOMAIN s |-> Out("redo", s[i])]
  OBVIOUS
<1>3. Walked(ops, t) = Docs(s, f)
  BY <1>2, WalkedIs
<1> QED
  BY <1>1, <1>2, <1>3, Zenon

\* What the log's variables are, from the chains.
LEMMA LogIs ==
  ASSUME IsList(undo), IsList(redo),
         NEW f, Chain("undo", undo, table, f), NEW h, Chain("redo", redo, table, h)
  PROVE  Unwound = Docs(undo, f) /\ Rewound = Docs(redo, h)
BY UnwoundIs, RewoundIs, Zenon DEF Unwound, Rewound

\* The same of the state after a step, with the lists and the table it leaves.
LEMMA LogBecomes ==
  ASSUME NEW s, NEW r, NEW t, undo' = s, redo' = r, table' = t, IsList(s), IsList(r), SoundTable(t),
         NEW f, Chain("undo", s, t, f), NEW h, Chain("redo", r, t, h)
  PROVE  TableInv' /\ Unwound' = Docs(s, f) /\ Rewound' = Docs(r, h) /\ Shown(table)' = Shown(t)
<1>1. Unwound' = Docs(s, f)
  <2>1. Unwound' = Walked([i \in DOMAIN s |-> s[i].inverse], t)
    BY DEF Unwound
  <2> QED
    BY <2>1, UnwoundIs
<1>2. Rewound' = Docs(r, h)
  <2>1. Rewound' = Walked([i \in DOMAIN r |-> r[i].op], t)
    BY DEF Rewound
  <2> QED
    BY <2>1, RewoundIs
<1>3. TableInv'
  BY DEF TableInv
<1>4. Shown(table)' = Shown(t)
  OBVIOUS
<1> QED
  BY <1>1, <1>2, <1>3, <1>4

\* What a list's tables show is a sequence as long as the list.
LEMMA DocsIs ==
  ASSUME NEW s, IsList(s), NEW f
  PROVE  IsList(Docs(s, f)) /\ Len(Docs(s, f)) = Len(s) /\ Len(s) \in Nat
<1>1. Len(s) \in Nat
  <2>1. PICK S : s \in Seq(S)
    BY DEF IsList
  <2> QED
    BY <2>1
<1>2. PICK D : D = {Shown(f[i]) : i \in 1 .. Len(s)}
  OBVIOUS
<1>3. \A i \in 1 .. Len(s) : Shown(f[i]) \in D
  BY <1>2
<1>4. Docs(s, f) \in Seq(D) /\ Len(Docs(s, f)) = Len(s)
  BY <1>1, <1>3 DEF Docs
<1> QED
  BY <1>1, <1>4 DEF IsList

\* A pushed entry leads back to the table it was pushed at; what is kept is what the
\* log keeps.
LEMMA PushedLeadsBack ==
  ASSUME IsList(undo), NEW f, Chain("undo", undo, table, f),
         NEW u, SoundTable(u), NEW e, TwoWay(e), Takes(e.inverse, u, table), Takes(e.op, table, u)
  PROVE  \E g : /\ Chain("undo", Pushed(e), u, g)
                /\ Docs(Pushed(e), g) = Log!Kept(<<Shown(table)>> \o Docs(undo, f))
<1> DEFINE whole == Prepended(e, undo)
           docs == Prepended(Shown(table), Docs(undo, f))
           n == IF Len(undo) < Depth THEN Len(undo) + 1 ELSE Depth
<1>1. PICK g : Chain("undo", whole, u, g) /\ Docs(whole, g) = docs
  <2>1. Takes(Out("undo", e), u, table) /\ Takes(Home("undo", e), table, u)
    BY DEF Out, Home
  <2> QED
    BY <2>1, ChainMore
<1>2. IsList(whole) /\ Len(whole) = Len(undo) + 1 /\ Len(undo) \in Nat
  BY PrependedList DEF Prepended
<1>3. n \in 0 .. Len(whole)
  BY <1>2, DepthIsPositive
<1>4. Len(docs) = Len(undo) + 1
  <2>1. IsList(Docs(undo, f)) /\ Len(Docs(undo, f)) = Len(undo)
    BY DocsIs
  <2> QED
    BY <2>1, PrependedList DEF Prepended
<1>5. Pushed(e) = First(whole, n)
  BY Zenon DEF Pushed, First, Prepended
<1>6. Log!Kept(docs) = First(docs, n)
  <2>1. Log!Kept(docs) = First(docs, IF Len(docs) < Depth THEN Len(docs) ELSE Depth)
    BY Zenon DEF Log!Kept, First
  <2>2. (IF Len(docs) < Depth THEN Len(docs) ELSE Depth) = n
    <3> HIDE DEF docs
    <3> QED
      BY <1>2, <1>4, DepthIsPositive
  <2> QED
    BY <2>1, <2>2, Zenon
<1> HIDE DEF whole, docs, n
<1>7. Chain("undo", First(whole, n), u, g) /\ Docs(First(whole, n), g) = First(Docs(whole, g), n)
  BY <1>1, <1>2, <1>3, ChainPrefix
<1>8. Chain("undo", Pushed(e), u, g) /\ Docs(Pushed(e), g) = Log!Kept(docs)
  BY <1>1, <1>5, <1>6, <1>7
<1> QED
  BY <1>8, Zenon DEF docs, Prepended

\* An edit keeps the invariant and is an edit of the log.
LEMMA ApplyStep ==
  ASSUME PipelinesAreSound, TableInv, NEW edit \in Edits, Apply(edit)
  PROVE  TableInv' /\ Log!Edit
<1>1. PICK t : t = ApplyColumnOp(edit.op, table).table
  OBVIOUS
<1>2. PICK inv : inv = InvertOp(edit.op, table)
  OBVIOUS
<1>3. PICK e : e = [op |-> edit.op, inverse |-> inv]
  OBVIOUS
<1>4. /\ DecodeGridEdit(edit) /\ ApplyColumnOp(edit.op, table).ok /\ table' = t /\ redo' = <<>>
      /\ undo' = IF Invertible(edit.op) THEN Pushed(e) ELSE <<>>
  BY <1>1, <1>2, <1>3 DEF Apply
<1>5. /\ IsList(undo) /\ IsList(redo) /\ SoundTable(table)
      /\ \E f : Chain("undo", undo, table, f)
      /\ \E f : Chain("redo", redo, table, f)
  BY DEF TableInv
<1>6. SoundTable(t) /\ (Invertible(edit.op) => Reversible(edit.op))
  BY <1>1, <1>4, <1>5, EditKeeps DEF SoundTable
<1>7. PICK f : Chain("undo", undo, table, f)
  BY <1>5
<1>8. PICK old : Chain("redo", redo, table, old)
  BY <1>5
<1>9. Unwound = Docs(undo, f)
  BY <1>5, <1>7, <1>8, LogIs
<1>10. PICK h : Chain("redo", <<>>, t, h) /\ Docs(<<>>, h) = <<>>
  BY <1>6, ChainOfNone
<1>11. CASE ~Invertible(edit.op)
  <2>1. undo' = <<>>
    BY <1>4, <1>11
  <2>2. PICK g : Chain("undo", <<>>, t, g) /\ Docs(<<>>, g) = <<>>
    BY <1>6, ChainOfNone
  <2>3. TableInv' /\ Unwound' = <<>> /\ Rewound' = <<>>
    BY <1>4, <1>6, <1>10, <2>1, <2>2, EmptyList, LogBecomes
  <2> QED
    BY <2>3 DEF Log!Edit
<1>12. CASE Invertible(edit.op)
  <2>1. undo' = Pushed(e) /\ e.op = edit.op /\ e.inverse = inv
    BY <1>3, <1>4, <1>12
  <2>2. Reversible(inv) /\ ApplyColumnOp(inv, t).ok /\ ApplyColumnOp(inv, t).table.columns = table.columns
    <3>1. Reversible(edit.op) /\ table \in Table /\ WellFormed(table)
      BY <1>5, <1>6, <1>12 DEF SoundTable
    <3> QED
      BY <1>1, <1>2, <1>4, <3>1, EveryOpIsTakenBack
  <2>3. TwoWay(e) /\ Takes(e.inverse, t, table) /\ Takes(e.op, table, t)
    BY <1>1, <1>4, <1>6, <1>12, <2>1, <2>2 DEF TwoWay, Takes
  <2>4. PICK g : /\ Chain("undo", Pushed(e), t, g)
                 /\ Docs(Pushed(e), g) = Log!Kept(<<Shown(table)>> \o Docs(undo, f))
    BY <1>5, <1>6, <1>7, <2>3, PushedLeadsBack
  <2>5. IsList(Pushed(e))
    BY <1>5, PushedList
  <2>6. TableInv' /\ Unwound' = Docs(Pushed(e), g) /\ Rewound' = Docs(<<>>, h)
    BY <1>4, <1>6, <1>10, <2>1, <2>4, <2>5, EmptyList, LogBecomes
  <2>7. Unwound' = Log!Kept(<<Shown(table)>> \o Unwound)
    BY <1>9, <2>4, <2>6
  <2> QED
    BY <1>10, <2>6, <2>7 DEF Log!Edit
<1> QED
  BY <1>11, <1>12

\* The entry next on a list leads to the next table, and from there back.
LEMMA GestureLeads ==
  ASSUME NEW way, NEW s, IsList(s), s # <<>>, NEW f, Chain(way, s, table, f), SoundTable(table),
         NEW e, e = Head(s), NEW t, t = ApplyColumnOp(Out(way, e), table).table
  PROVE  /\ SoundTable(t) /\ Shown(t) = Head(Docs(s, f)) /\ Docs(s, f) # <<>> /\ TwoWay(e)
         /\ Takes(Out(way, e), table, t) /\ Takes(Home(way, e), t, table)
         /\ \E g : Chain(way, Rest(s), t, g) /\ Docs(Rest(s), g) = Rest(Docs(s, f))
<1>1. /\ \E g : Chain(way, Rest(s), f[1], g) /\ Docs(Rest(s), g) = Rest(Docs(s, f))
      /\ Docs(s, f) # <<>> /\ Head(Docs(s, f)) = Shown(f[1])
      /\ SoundTable(f[1]) /\ TwoWay(e)
      /\ Takes(Out(way, e), table, f[1]) /\ Takes(Home(way, e), f[1], table)
  BY ChainTail
<1>2. Reversible(Out(way, e)) /\ Reversible(Home(way, e))
  BY <1>1 DEF TwoWay, Out, Home
<1>3. ApplyColumnOp(Out(way, e), table).ok /\ t.columns = f[1].columns
  BY <1>1 DEF Takes
<1>4. SoundTable(t)
  <2>1. table \in Table /\ WellFormed(table)
    BY DEF SoundTable
  <2> QED
    BY <1>2, <1>3, <2>1, EveryOpIsTakenBack DEF SoundTable
<1>5. Shown(t) = Shown(f[1])
  BY <1>1, <1>3, <1>4, ShownByColumns
<1>6. Takes(Out(way, e), table, t)
  BY <1>3 DEF Takes
<1>7. Takes(Home(way, e), t, table)
  BY <1>1, <1>2, <1>3, TakesByColumns
<1>8. PICK d : d = Rest(Docs(s, f))
  OBVIOUS
<1>9. PICK ts : ts = Rest(s)
  OBVIOUS
<1>10. PICK g : Chain(way, ts, f[1], g) /\ Docs(ts, g) = d
  BY <1>1, <1>8, <1>9, Zenon
<1>11. IsList(ts)
  BY <1>9, TailOfList DEF Rest
<1>12. \E g2 : Chain(way, ts, t, g2) /\ Docs(ts, g2) = Docs(ts, g)
  BY <1>3, <1>4, <1>10, <1>11, ChainByColumns
<1>13. \E g2 : Chain(way, Rest(s), t, g2) /\ Docs(Rest(s), g2) = Rest(Docs(s, f))
  BY <1>8, <1>9, <1>10, <1>12, Zenon
<1> QED
  BY <1>1, <1>4, <1>5, <1>6, <1>7, <1>13

\* An undo keeps the invariant and is an undo of the log.
LEMMA UndoStep ==
  ASSUME TableInv, Undo
  PROVE  TableInv' /\ Log!Undo
<1>1. PICK e : e = Head(undo)
  OBVIOUS
<1>2. PICK t : t = ApplyColumnOp(e.inverse, table).table
  OBVIOUS
<1>3. undo # <<>> /\ table' = t /\ redo' = Prepended(e, redo) /\ undo' = Rest(undo)
  BY <1>1, <1>2, Zenon DEF Undo, Prepended, Rest
<1>4. PICK f : Chain("undo", undo, table, f)
  BY DEF TableInv
<1>5. PICK h : Chain("redo", redo, table, h)
  BY DEF TableInv
<1>6. IsList(undo) /\ IsList(redo) /\ SoundTable(table)
  BY DEF TableInv
<1>7. Unwound = Docs(undo, f) /\ Rewound = Docs(redo, h)
  BY <1>4, <1>5, <1>6, LogIs
<1>8. t = ApplyColumnOp(Out("undo", e), table).table
  BY <1>2 DEF Out
<1>9. /\ SoundTable(t) /\ Shown(t) = Head(Docs(undo, f)) /\ Docs(undo, f) # <<>> /\ TwoWay(e)
      /\ Takes(Out("undo", e), table, t) /\ Takes(Home("undo", e), t, table)
      /\ \E g : Chain("undo", Rest(undo), t, g) /\ Docs(Rest(undo), g) = Rest(Docs(undo, f))
  BY <1>1, <1>3, <1>4, <1>6, <1>8, GestureLeads
<1>10. PICK g : Chain("undo", Rest(undo), t, g) /\ Docs(Rest(undo), g) = Rest(Docs(undo, f))
  BY <1>9, Zenon
<1>11. Takes(Out("redo", e), t, table) /\ Takes(Home("redo", e), table, t)
  BY <1>9 DEF Out, Home
<1>12. PICK k : /\ Chain("redo", Prepended(e, redo), t, k)
                /\ Docs(Prepended(e, redo), k) = Prepended(Shown(table), Docs(redo, h))
  BY <1>5, <1>6, <1>9, <1>11, ChainMore
<1>13. IsList(Rest(undo)) /\ IsList(Prepended(e, redo))
  BY <1>3, <1>6, TailOfList, PrependedList DEF Prepended, Rest
<1>14. PICK s : s = Rest(undo)
  OBVIOUS
<1>15. PICK r : r = Prepended(e, redo)
  OBVIOUS
<1>16. /\ TableInv' /\ Unwound' = Docs(s, g) /\ Rewound' = Docs(r, k) /\ Shown(table)' = Shown(t)
  <2>1. Chain("undo", s, t, g) /\ Chain("redo", r, t, k) /\ IsList(s) /\ IsList(r)
    BY <1>10, <1>12, <1>13, <1>14, <1>15, Zenon
  <2>2. undo' = s /\ redo' = r /\ table' = t
    BY <1>3, <1>14, <1>15, Zenon
  <2>3. SoundTable(t)
    BY <1>9
  <2> QED
    BY <2>1, <2>2, <2>3, LogBecomes
<1>17. Unwound' = Rest(Unwound) /\ Rewound' = <<Shown(table)>> \o Rewound
  BY <1>7, <1>10, <1>12, <1>14, <1>15, <1>16, Zenon DEF Prepended
<1> QED
  BY <1>7, <1>9, <1>16, <1>17, Zenon DEF Log!Undo, Rest

\* A redo keeps the invariant and is a redo of the log.
LEMMA RedoStep ==
  ASSUME TableInv, Redo
  PROVE  TableInv' /\ Log!Redo
<1>1. PICK e : e = Head(redo)
  OBVIOUS
<1>2. PICK t : t = ApplyColumnOp(e.op, table).table
  OBVIOUS
<1>3. redo # <<>> /\ table' = t /\ undo' = Pushed(e) /\ redo' = Rest(redo)
  BY <1>1, <1>2, Zenon DEF Redo, Rest
<1>4. PICK f : Chain("undo", undo, table, f)
  BY DEF TableInv
<1>5. PICK h : Chain("redo", redo, table, h)
  BY DEF TableInv
<1>6. IsList(undo) /\ IsList(redo) /\ SoundTable(table)
  BY DEF TableInv
<1>7. Unwound = Docs(undo, f) /\ Rewound = Docs(redo, h)
  BY <1>4, <1>5, <1>6, LogIs
<1>8. t = ApplyColumnOp(Out("redo", e), table).table
  BY <1>2 DEF Out
<1>9. /\ SoundTable(t) /\ Shown(t) = Head(Docs(redo, h)) /\ Docs(redo, h) # <<>> /\ TwoWay(e)
      /\ Takes(Out("redo", e), table, t) /\ Takes(Home("redo", e), t, table)
      /\ \E k : Chain("redo", Rest(redo), t, k) /\ Docs(Rest(redo), k) = Rest(Docs(redo, h))
  BY <1>1, <1>3, <1>5, <1>6, <1>8, GestureLeads
<1>10. PICK k : Chain("redo", Rest(redo), t, k) /\ Docs(Rest(redo), k) = Rest(Docs(redo, h))
  BY <1>9, Zenon
<1>11. Takes(e.inverse, t, table) /\ Takes(e.op, table, t)
  BY <1>9 DEF Out, Home
<1>12. PICK g : /\ Chain("undo", Pushed(e), t, g)
                /\ Docs(Pushed(e), g) = Log!Kept(<<Shown(table)>> \o Docs(undo, f))
  BY <1>4, <1>6, <1>9, <1>11, PushedLeadsBack
<1>13. IsList(Rest(redo)) /\ IsList(Pushed(e))
  BY <1>3, <1>6, TailOfList, PushedList DEF Rest
<1>14. PICK s : s = Pushed(e)
  OBVIOUS
<1>15. PICK r : r = Rest(redo)
  OBVIOUS
<1>16. /\ TableInv' /\ Unwound' = Docs(s, g) /\ Rewound' = Docs(r, k) /\ Shown(table)' = Shown(t)
  <2>1. Chain("undo", s, t, g) /\ Chain("redo", r, t, k) /\ IsList(s) /\ IsList(r)
    BY <1>10, <1>12, <1>13, <1>14, <1>15, Zenon
  <2>2. undo' = s /\ redo' = r /\ table' = t
    BY <1>3, <1>14, <1>15, Zenon
  <2>3. SoundTable(t)
    BY <1>9
  <2> QED
    BY <2>1, <2>2, <2>3, LogBecomes
<1>17. Unwound' = Log!Kept(<<Shown(table)>> \o Unwound) /\ Rewound' = Rest(Rewound)
  BY <1>7, <1>10, <1>12, <1>14, <1>15, <1>16, Zenon
<1> QED
  BY <1>7, <1>9, <1>16, <1>17, Zenon DEF Log!Redo, Rest

\* Every step keeps the invariant and is one of the log, or changes nothing of it.
LEMMA TableInductive ==
  ASSUME PipelinesAreSound
  PROVE  TableInv /\ [Next]_vars => TableInv' /\ [Log!Next]_Log!logVars
<1> SUFFICES ASSUME TableInv, [Next]_vars
             PROVE  TableInv' /\ [Log!Next]_Log!logVars
  OBVIOUS
<1>1. ASSUME NEW edit \in Edits, Apply(edit)
      PROVE  TableInv' /\ Log!Next
  BY <1>1, ApplyStep DEF Log!Next
<1>2. CASE Undo
  BY <1>2, UndoStep DEF Log!Next
<1>3. CASE Redo
  BY <1>3, RedoStep DEF Log!Next
<1>4. CASE UNCHANGED vars
  <2>1. undo' = undo /\ redo' = redo /\ table' = table
    BY <1>4 DEF vars
  <2>2. TableInv'
    BY <2>1 DEF TableInv
  <2>3. Unwound' = Unwound /\ Rewound' = Rewound /\ Shown(table)' = Shown(table)
    BY <2>1 DEF Unwound, Rewound
  <2> QED
    BY <2>2, <2>3 DEF Log!logVars
<1> QED
  BY <1>1, <1>2, <1>3, <1>4 DEF Next

\* The invariant, and the log's, hold at the start.
LEMMA TableInitial == Init => TableInv /\ Log!Init
<1> SUFFICES ASSUME Init
             PROVE  TableInv /\ Log!Init
  OBVIOUS
<1>1. undo = <<>> /\ redo = <<>> /\ SoundTable(table)
  BY TablesAssumption DEF Init, SoundTable
<1>2. PICK f : Chain("undo", undo, table, f) /\ Docs(undo, f) = <<>>
  BY <1>1, ChainOfNone
<1>3. PICK h : Chain("redo", redo, table, h) /\ Docs(redo, h) = <<>>
  BY <1>1, ChainOfNone
<1>4. IsList(undo) /\ IsList(redo)
  BY <1>1, EmptyList
<1>5. Unwound = <<>> /\ Rewound = <<>>
  BY <1>2, <1>3, <1>4, LogIs
<1>6. TableInv
  BY <1>1, <1>2, <1>3, <1>4 DEF TableInv
<1> QED
  BY <1>5, <1>6 DEF Log!Init

\* The table stays one the rest of the data layer can hold, for any tables a history
\* begins with, any edits the codec takes and any mix of gestures, where the pipelines
\* the edits carry answer well-formed tables.
THEOREM TableAlwaysWellFormed == ASSUME PipelinesAreSound PROVE Spec => []TableIsWellFormed
<1>1. Init => TableInv
  BY TableInitial
<1>2. TableInv /\ [Next]_vars => TableInv'
  BY TableInductive
<1>3. TableInv => TableIsWellFormed
  BY TableInvGives
<1> QED
  BY <1>1, <1>2, <1>3, PTL DEF Spec

\* The nearest undo and the nearest redo are never refused, under the same hypothesis:
\* no edit, undo or redo in between leaves a table their op does not apply to
\* (grid_edit.rs:478-512).
THEOREM GesturesNeverRefused == ASSUME PipelinesAreSound PROVE Spec => []GesturesAreNeverRefused
<1>1. Init => TableInv
  BY TableInitial
<1>2. TableInv /\ [Next]_vars => TableInv'
  BY TableInductive
<1>3. TableInv => GesturesAreNeverRefused
  BY TableInvGives
<1> QED
  BY <1>1, <1>2, <1>3, PTL DEF Spec

\* The history is the edit log: every edit, undo and redo of its tables is one of the
\* documents EditLog keeps, for every capacity.
THEOREM HistoryIsEditLog == ASSUME PipelinesAreSound PROVE Spec => IsEditLog
<1>1. Init => TableInv /\ Log!Init
  BY TableInitial
<1>2. TableInv /\ [Next]_vars => TableInv' /\ [Log!Next]_Log!logVars
  BY TableInductive
<1> QED
  BY <1>1, <1>2, PTL DEF Spec, IsEditLog, Log!Spec

----------------------------------------------------------------------------
(* The client.                                                             *)

\* The key of each row.
Keys(t) == KeysOf(t, KeyField)

\* A well-formed table has a key, or null, for each of its rows: the cells of the
\* column that is its row identity, where it has that one.
LEMMA KeysAre ==
  ASSUME NEW t, SoundTable(t)
  PROVE  /\ RowCount(t) \in Nat /\ Keys(t) \in Seq(CellValue) /\ Len(Keys(t)) = RowCount(t)
         /\ \A i \in DOMAIN t.columns : t.columns[i].name = KeyField => Keys(t) = t.columns[i].cells
         /\ (\A i \in DOMAIN t.columns : t.columns[i].name # KeyField)
              => Keys(t) = [r \in 1 .. RowCount(t) |-> Null]
<1>1. t \in Table /\ WellFormed(t) /\ t.columns \in Seq(DataColumn)
  BY TableMembers DEF SoundTable
<1>2. RowCount(t) \in Nat
  <2>1. CASE t.columns = <<>>
    BY <2>1 DEF RowCount
  <2>2. CASE t.columns # <<>>
    <3>1. 1 \in DOMAIN t.columns
      BY <1>1, <2>2
    <3> QED
      BY <1>1, <3>1, RowCountIs
  <2> QED
    BY <2>1, <2>2
<1>3. ASSUME NEW i \in DOMAIN t.columns, t.columns[i].name = KeyField
      PROVE  /\ Keys(t) = t.columns[i].cells
             /\ Keys(t) \in Seq(CellValue) /\ Len(Keys(t)) = RowCount(t)
  <2>1. Has(t, KeyField) /\ Find(t, KeyField) = t.columns[i]
    <3>1. t \in Table /\ WellFormed(t) /\ i \in DOMAIN t.columns
      BY <1>1, <1>3
    <3>2. Has(t, t.columns[i].name) /\ Find(t, t.columns[i].name) = t.columns[i]
      BY <3>1, OnlyColumn
    <3> QED
      BY <1>3, <3>2
  <2>2. Len(t.columns[i].cells) = RowCount(t)
    BY <1>1, <1>3, WellFormedIs DEF Sound
  <2>3. t.columns[i] \in DataColumn
    BY <1>1, <1>3
  <2>4. t.columns[i].cells \in Seq(CellValue)
    BY <2>3, ColumnMembers
  <2> QED
    BY <2>1, <2>2, <2>4 DEF Keys, KeysOf
<1>4. ASSUME \A i \in DOMAIN t.columns : t.columns[i].name # KeyField
      PROVE  /\ Keys(t) = [r \in 1 .. RowCount(t) |-> Null]
             /\ Keys(t) \in Seq(CellValue) /\ Len(Keys(t)) = RowCount(t)
  <2>1. ~Has(t, KeyField)
    BY <1>4, HasColumn
  <2>2. Keys(t) = [r \in 1 .. RowCount(t) |-> Null]
    BY <2>1 DEF Keys, KeysOf
  <2>3. PICK n \in Nat : n = RowCount(t)
    BY <1>2
  <2>4. [r \in 1 .. n |-> Null] \in Seq(CellValue) /\ Len([r \in 1 .. n |-> Null]) = n
    BY NullIsCell
  <2> QED
    BY <2>2, <2>3, <2>4
<1>5. CASE \E i \in DOMAIN t.columns : t.columns[i].name = KeyField
  BY <1>2, <1>3, <1>5
<1>6. CASE \A i \in DOMAIN t.columns : t.columns[i].name # KeyField
  BY <1>2, <1>4, <1>6
<1> QED
  BY <1>5, <1>6

\* The rows t and u hold at r are alike: the same columns with the same cell in each.
SameRow(t, u, r) ==
  /\ DOMAIN t.columns = DOMAIN u.columns
  /\ \A i \in DOMAIN t.columns : /\ t.columns[i].name = u.columns[i].name
                                 /\ t.columns[i].cells[r] = u.columns[i].cells[r]

\* Rows that are alike are one row to the client, under one key.
LEMMA SameRowIs ==
  ASSUME NEW t, SoundTable(t), NEW u, SoundTable(u), NEW r, SameRow(t, u, r),
         r \in DOMAIN Keys(t), r \in DOMAIN Keys(u)
  PROVE  Row(t, r) = Row(u, r) /\ Keys(t)[r] = Keys(u)[r]
<1>1. Row(t, r) = Row(u, r)
  BY DEF Row, SameRow
<1>2. CASE \E i \in DOMAIN t.columns : t.columns[i].name = KeyField
  <2>1. PICK i \in DOMAIN t.columns : t.columns[i].name = KeyField
    BY <1>2
  <2>2. i \in DOMAIN u.columns /\ u.columns[i].name = KeyField
        /\ t.columns[i].cells[r] = u.columns[i].cells[r]
    BY <2>1 DEF SameRow
  <2>3. Keys(t) = t.columns[i].cells
    BY <2>1, KeysAre
  <2>4. Keys(u) = u.columns[i].cells
    BY <2>2, KeysAre
  <2> QED
    BY <1>1, <2>2, <2>3, <2>4
<1>3. CASE \A i \in DOMAIN t.columns : t.columns[i].name # KeyField
  <2>1. \A i \in DOMAIN u.columns : u.columns[i].name # KeyField
    BY <1>3 DEF SameRow
  <2>2. Keys(t) = [k \in 1 .. RowCount(t) |-> Null]
    BY <1>3, KeysAre
  <2>3. Keys(u) = [k \in 1 .. RowCount(u) |-> Null]
    BY <2>1, KeysAre
  <2> QED
    BY <1>1, <2>2, <2>3
<1> QED
  BY <1>2, <1>3

\* Where every row has a key of its own, a key names one row.
LEMMA RowOfKey ==
  ASSUME NEW t, Keyed(t), NEW r \in DOMAIN Keys(t)
  PROVE  RowOf(t, Keys(t)[r]) = Row(t, r)
<1>1. {i \in DOMAIN Keys(t) : Keys(t)[i] = Keys(t)[r]} = {r}
  BY DEF Keyed, Keys
<1>2. RowOf(t, Keys(t)[r])
        = UNION {Row(t, s) : s \in {i \in DOMAIN Keys(t) : Keys(t)[i] = Keys(t)[r]}}
  BY DEF RowOf, Keys
<1> QED
  BY <1>1, <1>2

\* What a delta that is no full refresh names with a change.
LEMMA ToldIs ==
  ASSUME NEW rows, NEW change
  PROVE  \A k : k \in Told(RowSet(rows), change) <=> <<k, change>> \in rows
<1>1. RowSet(rows).rows = rows
  BY DEF RowSet
<1>2. ASSUME NEW k, <<k, change>> \in rows
      PROVE  k \in {row[1] : row \in rows}
  <2>1. <<k, change>>[1] = k
    OBVIOUS
  <2> QED
    BY <1>2, <2>1
<1> QED
  BY <1>1, <1>2 DEF Told

\* What the delta of a single cell names.
LEMMA ToldOfNone == \A change : Told(RowSet({}), change) = {}
BY DEF Told, RowSet

\* What a change of one row names.
LEMMA ToldOfChange ==
  ASSUME NEW k
  PROVE  /\ Told(RowSet({<<k, "changed">>}), "changed") = {k}
         /\ Told(RowSet({<<k, "changed">>}), "removed") = {}
         /\ Told(RowSet({<<k, "changed">>}), "added") = {}
<1> DEFINE rows == {<<k, "changed">>}
<1>1. {row[1] : row \in rows} = {k} /\ RowSet(rows).rows = rows
  BY DEF RowSet
<1> QED
  BY <1>1 DEF Told

\* What a row that changes its key names.
LEMMA ToldOfMove ==
  ASSUME NEW k, NEW l
  PROVE  /\ Told(RowSet({<<k, "removed">>, <<l, "added">>}), "removed") = {k}
         /\ Told(RowSet({<<k, "removed">>, <<l, "added">>}), "added") = {l}
<1> DEFINE rows == {<<k, "removed">>, <<l, "added">>}
<1>1. {row[1] : row \in rows} = {k, l} /\ RowSet(rows).rows = rows
  BY DEF RowSet
<1> QED
  BY <1>1 DEF Told

\* A delta brings the client from one keyed table to the next where it takes the keys
\* to those of the next table, and names every row that is not as it was.
LEMMA DeltaBrings ==
  ASSUME NEW b, SoundTable(b), Keyed(b), NEW t, SoundTable(t), Keyed(t), NEW delta,
         NEW gone, gone = Told(delta, "removed"), NEW added, added = Told(delta, "added"),
         NEW changed, changed = Told(delta, "changed"),
         (Range(Keys(b)) \ gone) \cup added = Range(Keys(t)),
         \A r \in DOMAIN Keys(t) : \/ r \in DOMAIN Keys(b) /\ SameRow(b, t, r)
                                   \/ Keys(t)[r] \in added \cup changed
  PROVE  Patched(View(b), delta, t) = View(t)
<1>1. DOMAIN View(b) = Range(Keys(b)) /\ \A k \in Range(Keys(b)) : View(b)[k] = RowOf(b, k)
  BY DEF View, Keys
<1>2. View(t) = [k \in Range(Keys(t)) |-> RowOf(t, k)]
  BY DEF View, Keys
<1>3. Patched(View(b), delta, t)
        = [k \in Range(Keys(t)) |-> IF k \in added \cup changed THEN RowOf(t, k) ELSE View(b)[k]]
  <2>1. Patched(View(b), delta, t)
          = [k \in (DOMAIN View(b) \ gone) \cup added |->
               IF k \in added \cup changed THEN RowOf(t, k) ELSE View(b)[k]]
    BY Zenon DEF Patched
  <2> QED
    BY <1>1, <2>1
<1>4. ASSUME NEW k \in Range(Keys(t)), k \notin added \cup changed
      PROVE  View(b)[k] = RowOf(t, k)
  <2>1. PICK r \in DOMAIN Keys(t) : k = Keys(t)[r]
    BY <1>4 DEF Range
  <2>2. r \in DOMAIN Keys(b) /\ SameRow(b, t, r)
    BY <1>4, <2>1
  <2>3. Row(b, r) = Row(t, r) /\ Keys(b)[r] = Keys(t)[r]
    BY <2>1, <2>2, SameRowIs
  <2>4. RowOf(b, Keys(b)[r]) = Row(b, r)
    BY <2>2, RowOfKey
  <2>5. RowOf(t, Keys(t)[r]) = Row(t, r)
    BY <2>1, RowOfKey
  <2>6. k \in Range(Keys(b))
    BY <2>1, <2>2, <2>3 DEF Range
  <2> QED
    BY <1>1, <2>1, <2>3, <2>4, <2>5, <2>6
<1> QED
  BY <1>2, <1>3, <1>4

----------------------------------------------------------------------------
(* What each kind of op that is told row by row leaves as it was.          *)

\* Telling of a refresh leaves nothing to take row by row.
LEMMA RefreshIsFull == FullRefresh.full = TRUE /\ \A rows : RowSet(rows).full = FALSE
BY DEF FullRefresh, RowSet

\* A column put in the place of another leaves every row as it was in which the two
\* hold one cell.
LEMMA ReplacedRows ==
  ASSUME NEW b, SoundTable(b), NEW i \in DOMAIN b.columns, NEW col \in DataColumn,
         col.name = b.columns[i].name, Len(col.cells) = RowCount(b), ColumnFits(col),
         NEW t, t = WithColumn(b, col)
  PROVE  /\ SoundTable(t) /\ RowCount(t) = RowCount(b) /\ DOMAIN Keys(t) = DOMAIN Keys(b)
         /\ DOMAIN Keys(b) = DOMAIN col.cells
         /\ \A r : b.columns[i].cells[r] = col.cells[r] => SameRow(b, t, r)
<1>1. b \in Table /\ WellFormed(b)
  BY DEF SoundTable
<1>2. /\ t \in Table /\ WellFormed(t) /\ RowCount(t) = RowCount(b)
      /\ t.columns = [b.columns EXCEPT ![i] = col]
  BY <1>1, ColumnReplaced
<1>3. SoundTable(t)
  BY <1>2 DEF SoundTable
<1>4. RowCount(b) \in Nat /\ Keys(b) \in Seq(CellValue) /\ Len(Keys(b)) = RowCount(b)
  BY KeysAre
<1>5. Keys(t) \in Seq(CellValue) /\ Len(Keys(t)) = RowCount(t)
  BY <1>3, KeysAre
<1>6. col.cells \in Seq(CellValue)
  BY ColumnMembers
<1>7. ASSUME NEW r, b.columns[i].cells[r] = col.cells[r]
      PROVE  SameRow(b, t, r)
  <2>1. DOMAIN t.columns = DOMAIN b.columns
    BY <1>2
  <2>2. \A j \in DOMAIN b.columns : t.columns[j] = IF j = i THEN col ELSE b.columns[j]
    BY <1>2
  <2> QED
    BY <1>7, <2>1, <2>2 DEF SameRow
<1> QED
  BY <1>2, <1>3, <1>4, <1>5, <1>6, <1>7

\* Tables that agree in every key have the same keys.
LEMMA SameKeys ==
  ASSUME NEW k, NEW l, DOMAIN k = DOMAIN l, \A r \in DOMAIN k : k[r] = l[r]
  PROVE  Range(k) = Range(l)
BY DEF Range

\* The delta of a cell edit, a full refresh or the one row under the key it had and the
\* key it has, brings the client along.
LEMMA SetCellBrings ==
  ASSUME NEW b, SoundTable(b), Keyed(b),
         NEW op \in [kind : {"setCell"}, col : Name, row : Int, value : CellValue],
         SetCell(op, b).ok, NEW t, t = SetCell(op, b).table, Keyed(t),
         NEW delta, delta = SetCellDelta(op, b, Keys(b), Keys(t)), ~delta.full
  PROVE  Patched(View(b), delta, t) = View(t)
<1>1. b \in Table /\ WellFormed(b) /\ op.row \in Int /\ op.value \in CellValue
  BY DEF SoundTable
<1>2. PICK i \in DOMAIN b.columns :
        LET col == Written(b.columns[i], op.row + 1, op.value)
        IN  /\ b.columns[i] \in DataColumn /\ b.columns[i].name = op.col
            /\ op.row \in 0 .. RowCount(b) - 1 /\ op.row + 1 \in DOMAIN b.columns[i].cells
            /\ col \in DataColumn /\ col.name = b.columns[i].name /\ col.type = b.columns[i].type
            /\ Len(col.cells) = RowCount(b) /\ ColumnFits(col)
            /\ SetCell(op, b) = Done(WithColumn(b, col))
            /\ Find(b, op.col) = b.columns[i]
  BY <1>1, SetCellTakes
<1>3. PICK c \in DataColumn : c = b.columns[i]
  BY <1>2
<1>4. PICK r : r = op.row + 1
  OBVIOUS
<1>5. PICK v \in CellValue : v = op.value
  BY <1>1
<1>6. PICK col \in DataColumn : col = Written(c, r, v)
  BY <1>2, <1>3, <1>4, <1>5
<1>7. /\ r \in DOMAIN c.cells /\ col.name = c.name /\ Len(col.cells) = RowCount(b)
      /\ ColumnFits(col) /\ SetCell(op, b) = Done(WithColumn(b, col)) /\ Find(b, op.col) = c
  BY <1>2, <1>3, <1>4, <1>5, <1>6
<1>8. t = WithColumn(b, col)
  BY <1>7, DoneMembers
<1>9. col.cells = [c.cells EXCEPT ![r] = v]
  BY <1>6, <1>7, ColumnCellWritten
<1>10. /\ SoundTable(t) /\ DOMAIN Keys(t) = DOMAIN Keys(b)
       /\ DOMAIN Keys(b) = DOMAIN col.cells
       /\ \A s : c.cells[s] = col.cells[s] => SameRow(b, t, s)
  <2>1. col.name = b.columns[i].name
    BY <1>3, <1>7
  <2> QED
    BY <1>3, <1>7, <1>8, <2>1, ReplacedRows
<1>11. DOMAIN col.cells = DOMAIN c.cells /\ r \in DOMAIN Keys(b)
       /\ \A s \in DOMAIN Keys(b) : s # r => SameRow(b, t, s)
  <2>1. c.cells \in Seq(CellValue)
    BY ColumnMembers
  <2> QED
    BY <1>7, <1>9, <1>10, <2>1
<1>12. \A s \in DOMAIN Keys(b) : s # r => Keys(b)[s] = Keys(t)[s]
  BY <1>10, <1>11, SameRowIs
<1>13. \A s, q \in DOMAIN Keys(b) : Keys(b)[s] = Keys(b)[q] => s = q
  BY DEF Keyed, Keys
<1>14. delta = IF Null \in {Keys(b)[r], Keys(t)[r]} THEN FullRefresh
               ELSE IF Same(c.cells[r], v) THEN RowSet({})
               ELSE IF Keys(b)[r] = Keys(t)[r] THEN RowSet({<<Keys(b)[r], "changed">>})
               ELSE RowSet({<<Keys(b)[r], "removed">>, <<Keys(t)[r], "added">>})
  BY <1>4, <1>5, <1>7, Zenon DEF SetCellDelta
<1>15. PICK gone : gone = Told(delta, "removed")
  OBVIOUS
<1>16. PICK added : added = Told(delta, "added")
  OBVIOUS
<1>17. PICK changed : changed = Told(delta, "changed")
  OBVIOUS
<1>19. CASE Same(c.cells[r], v) /\ delta = RowSet({})
  <2>1. SameRow(b, t, r)
    BY <1>7, <1>9, <1>10, <1>19 DEF Same
  <2>2. Keys(b)[r] = Keys(t)[r]
    BY <1>10, <1>11, <2>1, SameRowIs
  <2>3. Range(Keys(b)) = Range(Keys(t))
    BY <1>10, <1>12, <2>2, SameKeys
  <2>4. gone = {} /\ added = {}
    BY <1>15, <1>16, <1>19, ToldOfNone
  <2>5. (Range(Keys(b)) \ gone) \cup added = Range(Keys(t))
    BY <2>3, <2>4
  <2>6. \A s \in DOMAIN Keys(t) : s \in DOMAIN Keys(b) /\ SameRow(b, t, s)
    BY <1>10, <1>11, <2>1
  <2> QED
    BY <1>10, <1>15, <1>16, <1>17, <2>5, <2>6, DeltaBrings
<1>20. CASE Keys(b)[r] = Keys(t)[r] /\ delta = RowSet({<<Keys(b)[r], "changed">>})
  <2>1. Range(Keys(b)) = Range(Keys(t))
    BY <1>10, <1>12, <1>20, SameKeys
  <2>2. gone = {} /\ added = {} /\ changed = {Keys(b)[r]}
    BY <1>15, <1>16, <1>17, <1>20, ToldOfChange
  <2>3. (Range(Keys(b)) \ gone) \cup added = Range(Keys(t))
    BY <2>1, <2>2
  <2>4. \A s \in DOMAIN Keys(t) : \/ s \in DOMAIN Keys(b) /\ SameRow(b, t, s)
                                  \/ Keys(t)[s] \in added \cup changed
    BY <1>10, <1>11, <1>20, <2>2
  <2> QED
    BY <1>10, <1>15, <1>16, <1>17, <2>3, <2>4, DeltaBrings
<1>21. CASE /\ Keys(b)[r] # Keys(t)[r]
            /\ delta = RowSet({<<Keys(b)[r], "removed">>, <<Keys(t)[r], "added">>})
  <2>1. gone = {Keys(b)[r]} /\ added = {Keys(t)[r]}
    <3>1. PICK old : old = Keys(b)[r]
      OBVIOUS
    <3>2. PICK new : new = Keys(t)[r]
      OBVIOUS
    <3>3. /\ gone = Told(RowSet({<<old, "removed">>, <<new, "added">>}), "removed")
          /\ added = Told(RowSet({<<old, "removed">>, <<new, "added">>}), "added")
      BY <1>15, <1>16, <1>21, <3>1, <3>2, Zenon
    <3>4. gone = {old} /\ added = {new}
      BY <3>3, ToldOfMove, Zenon
    <3> QED
      BY <3>1, <3>2, <3>4, Zenon
  <2>2. ASSUME NEW k \in (Range(Keys(b)) \ gone) \cup added
        PROVE  k \in Range(Keys(t))
    BY <1>10, <1>11, <1>12, <2>1 DEF Range
  <2>3. ASSUME NEW k \in Range(Keys(t))
        PROVE  k \in (Range(Keys(b)) \ gone) \cup added
    <3>1. PICK s \in DOMAIN Keys(t) : k = Keys(t)[s]
      BY DEF Range
    <3>2. CASE s = r
      BY <2>1, <3>1, <3>2
    <3>3. CASE s # r
      BY <1>10, <1>11, <1>12, <1>13, <2>1, <3>1, <3>3 DEF Range
    <3> QED
      BY <3>2, <3>3
  <2>4. (Range(Keys(b)) \ gone) \cup added = Range(Keys(t))
    BY <2>2, <2>3
  <2>5. \A s \in DOMAIN Keys(t) : \/ s \in DOMAIN Keys(b) /\ SameRow(b, t, s)
                                  \/ Keys(t)[s] \in added \cup changed
    BY <1>10, <1>11, <2>1
  <2> QED
    BY <1>10, <1>15, <1>16, <1>17, <2>4, <2>5, DeltaBrings
<1>22. delta # FullRefresh
  BY RefreshIsFull
<1> QED
  BY <1>14, <1>19, <1>20, <1>21, <1>22

\* The delta of a new column, the rows in which it differs, brings the client along.
LEMMA SetColumnBrings ==
  ASSUME NEW b, SoundTable(b), Keyed(b),
         NEW op \in [kind : {"setColumn"}, column : DataColumn], ColumnFits(op.column),
         SetColumn(op, b).ok, NEW t, t = SetColumn(op, b).table, Keyed(t),
         NEW delta, delta = SetColumnDelta(op, b, Keys(b), Keys(t)), ~delta.full
  PROVE  Patched(View(b), delta, t) = View(t)
<1>1. b \in Table /\ WellFormed(b)
  BY DEF SoundTable
<1>2. PICK col \in DataColumn : col = op.column
  OBVIOUS
<1>3. /\ Has(b, col.name) /\ Len(col.cells) = RowCount(b) /\ ColumnFits(col)
      /\ SetColumn(op, b) = Done(WithColumn(b, col))
  BY <1>2, RefuseMembers DEF SetColumn
<1>4. t = WithColumn(b, col)
  BY <1>3, DoneMembers
<1>5. PICK i \in DOMAIN b.columns : b.columns[i].name = col.name
  BY <1>3, HasColumn
<1>6. PICK old : old = b.columns[i].cells
  OBVIOUS
<1>7. Find(b, col.name).cells = old
  <2>1. Find(b, b.columns[i].name) = b.columns[i]
    BY <1>1, OnlyColumn
  <2> QED
    BY <1>5, <1>6, <2>1
<1>8. /\ SoundTable(t) /\ DOMAIN Keys(t) = DOMAIN Keys(b)
      /\ \A r : old[r] = col.cells[r] => SameRow(b, t, r)
  BY <1>3, <1>4, <1>5, <1>6, ReplacedRows
<1> DEFINE named == {<<Keys(b)[r], "changed">> : r \in {k \in DOMAIN Keys(b) : ~Same(old[k], col.cells[k])}}
<1>9. delta = IF Keys(b) # Keys(t) \/ Null \in Range(Keys(b)) THEN FullRefresh ELSE RowSet(named)
  BY <1>2, <1>7, Zenon DEF SetColumnDelta
<1>10. Keys(b) = Keys(t) /\ delta = RowSet(named)
  BY <1>9, RefreshIsFull, Zenon
<1>11. PICK gone : gone = Told(delta, "removed")
  OBVIOUS
<1>12. PICK added : added = Told(delta, "added")
  OBVIOUS
<1>13. PICK changed : changed = Told(delta, "changed")
  OBVIOUS
<1>14. gone = {} /\ added = {}
  <2>1. \A k : <<k, "removed">> \notin named /\ <<k, "added">> \notin named
    OBVIOUS
  <2>2. \A change : change \in {"removed", "added"} => Told(RowSet(named), change) = {}
    BY <2>1 DEF Told, RowSet
  <2> QED
    BY <1>10, <1>11, <1>12, <2>2
<1>15. ASSUME NEW r \in DOMAIN Keys(b), ~Same(old[r], col.cells[r])
       PROVE  Keys(b)[r] \in changed
  <2>1. <<Keys(b)[r], "changed">> \in named
    BY <1>15
  <2> QED
    BY <1>10, <1>13, <2>1, ToldIs
<1>16. \A r \in DOMAIN Keys(t) : \/ r \in DOMAIN Keys(b) /\ SameRow(b, t, r)
                                \/ Keys(t)[r] \in added \cup changed
  <2> HIDE DEF named
  <2> QED
    BY <1>8, <1>10, <1>15 DEF Same
<1>17. (Range(Keys(b)) \ gone) \cup added = Range(Keys(t))
  BY <1>10, <1>14
<1> QED
  BY <1>8, <1>11, <1>12, <1>13, <1>16, <1>17, DeltaBrings

\* The delta of appended rows, a full refresh or the rows under keys no row had, brings
\* the client along.
LEMMA AppendRowsBrings ==
  ASSUME NEW b, SoundTable(b), Keyed(b),
         NEW op \in [kind : {"appendRows"}, rows : Seq(Seq(RowCell))],
         AppendRows(op, b).ok, NEW t, t = AppendRows(op, b).table, Keyed(t),
         NEW delta, delta = AppendRowsDelta(Keys(b), Keys(t)), ~delta.full
  PROVE  Patched(View(b), delta, t) = View(t)
<1>1. b \in Table /\ WellFormed(b)
  BY DEF SoundTable
<1>2. /\ SoundTable(t) /\ RowCount(b) <= RowCount(t) /\ DOMAIN t.columns = DOMAIN b.columns
      /\ \A i \in DOMAIN b.columns :
           /\ t.columns[i].name = b.columns[i].name
           /\ \A k \in DOMAIN b.columns[i].cells : t.columns[i].cells[k] = b.columns[i].cells[k]
  BY <1>1, AppendRowsKeeps DEF SoundTable
<1>3. RowCount(b) \in Nat /\ DOMAIN Keys(b) = 1 .. RowCount(b) /\ Len(Keys(b)) = RowCount(b)
  <2>1. RowCount(b) \in Nat /\ Keys(b) \in Seq(CellValue) /\ Len(Keys(b)) = RowCount(b)
    BY KeysAre
  <2> QED
    BY <2>1
<1>4. RowCount(t) \in Nat /\ DOMAIN Keys(t) = 1 .. RowCount(t) /\ Len(Keys(t)) = RowCount(t)
  <2>1. RowCount(t) \in Nat /\ Keys(t) \in Seq(CellValue) /\ Len(Keys(t)) = RowCount(t)
    BY <1>2, KeysAre
  <2> QED
    BY <2>1
<1>5. ASSUME NEW r \in DOMAIN Keys(b)
      PROVE  r \in DOMAIN Keys(t) /\ SameRow(b, t, r) /\ Keys(t)[r] = Keys(b)[r]
  <2>1. r \in DOMAIN Keys(t)
    BY <1>2, <1>3, <1>4
  <2>2. ASSUME NEW i \in DOMAIN b.columns
        PROVE  r \in DOMAIN b.columns[i].cells
    <3>1. Len(b.columns[i].cells) = RowCount(b)
      BY <1>1, WellFormedIs DEF Sound
    <3>2. b.columns[i] \in DataColumn
      BY <1>1, TableMembers
    <3>3. b.columns[i].cells \in Seq(CellValue)
      BY <3>2, ColumnMembers
    <3> QED
      BY <1>3, <3>1, <3>3
  <2>3. SameRow(b, t, r)
    BY <1>2, <2>2 DEF SameRow
  <2> QED
    BY <1>2, <2>1, <2>3, SameRowIs
<1> DEFINE more == Len(Keys(b)) + 1 .. Len(Keys(t))
           named == {<<Keys(t)[r], "added">> : r \in more}
<1>6. delta = RowSet(named)
  <2>1. delta = RowSet(named) \/ delta = FullRefresh
    BY Zenon DEF AppendRowsDelta
  <2> QED
    BY <2>1, RefreshIsFull, Zenon
<1>7. PICK gone : gone = Told(delta, "removed")
  OBVIOUS
<1>8. PICK added : added = Told(delta, "added")
  OBVIOUS
<1>9. PICK changed : changed = Told(delta, "changed")
  OBVIOUS
<1>10. gone = {}
  <2>1. \A k : <<k, "removed">> \notin named
    OBVIOUS
  <2>2. Told(RowSet(named), "removed") = {}
    BY <2>1 DEF Told, RowSet
  <2> QED
    BY <1>6, <1>7, <2>2
<1>11. \A k : k \in added <=> \E r \in more : k = Keys(t)[r]
  <2>1. \A k : <<k, "added">> \in named <=> \E r \in more : k = Keys(t)[r]
    OBVIOUS
  <2> HIDE DEF named
  <2>2. \A k : k \in Told(RowSet(named), "added") <=> <<k, "added">> \in named
    BY ToldIs
  <2> QED
    BY <1>6, <1>8, <2>1, <2>2
<1>12. \A r \in DOMAIN Keys(t) : r \in DOMAIN Keys(b) \/ r \in more
  BY <1>3, <1>4
<1>13. \A r \in more : r \in DOMAIN Keys(t)
  BY <1>3, <1>4
<1> HIDE DEF more, named
<1>14. (Range(Keys(b)) \ gone) \cup added = Range(Keys(t))
  <2>1. ASSUME NEW k \in Range(Keys(b)) \cup added
        PROVE  k \in Range(Keys(t))
    BY <1>5, <1>11, <1>13 DEF Range
  <2>2. ASSUME NEW k \in Range(Keys(t))
        PROVE  k \in Range(Keys(b)) \cup added
    BY <1>5, <1>11, <1>12 DEF Range
  <2> QED
    BY <1>10, <2>1, <2>2
<1>15. \A r \in DOMAIN Keys(t) : \/ r \in DOMAIN Keys(b) /\ SameRow(b, t, r)
                                \/ Keys(t)[r] \in added \cup changed
  BY <1>5, <1>11, <1>12
<1> QED
  BY <1>2, <1>7, <1>8, <1>9, <1>14, <1>15, DeltaBrings

\* The delta of any op, taken with the table the op leaves, brings the client along.
LEMMA OpBrings ==
  ASSUME NEW b, SoundTable(b), Keyed(b), NEW op, IsOp(op), DecodeColumnOp(op),
         ApplyColumnOp(op, b).ok, NEW t, t = ApplyColumnOp(op, b).table, Keyed(t),
         NEW delta, delta = GridEditDelta(KeyField, b, op), ~delta.full
  PROVE  Patched(View(b), delta, t) = View(t)
<1>1. op.kind \notin {"insertColumn", "removeColumn", "applyTransform"}
  <2>1. op.kind \in {"insertColumn", "removeColumn", "applyTransform"} => delta = FullRefresh
    BY DEF GridEditDelta
  <2> QED
    BY <2>1, RefreshIsFull
<1>2. CASE op \in [kind : {"setCell"}, col : Name, row : Int, value : CellValue]
  <2>1. op.kind = "setCell"
    BY <1>2
  <2>2. ApplyColumnOp(op, b) = SetCell(op, b) /\ delta = SetCellDelta(op, b, Keys(b), Keys(t))
    BY <1>1, <2>1 DEF ApplyColumnOp, GridEditDelta, Keys
  <2>3. SetCell(op, b).ok /\ t = SetCell(op, b).table
    BY <2>2
  <2> QED
    BY <1>2, <2>2, <2>3, SetCellBrings
<1>3. CASE op \in [kind : {"setColumn"}, column : DataColumn]
  <2>1. op.kind = "setColumn" /\ ColumnFits(op.column)
    BY <1>3 DEF DecodeColumnOp
  <2>2. ApplyColumnOp(op, b) = SetColumn(op, b) /\ delta = SetColumnDelta(op, b, Keys(b), Keys(t))
    BY <1>1, <2>1 DEF ApplyColumnOp, GridEditDelta, Keys
  <2>3. SetColumn(op, b).ok /\ t = SetColumn(op, b).table
    BY <2>2
  <2> QED
    BY <1>3, <2>1, <2>2, <2>3, SetColumnBrings
<1>4. CASE op \in [kind : {"appendRows"}, rows : Seq(Seq(RowCell))]
  <2>1. op.kind = "appendRows"
    BY <1>4
  <2>2. ApplyColumnOp(op, b) = AppendRows(op, b) /\ delta = AppendRowsDelta(Keys(b), Keys(t))
    BY <1>1, <2>1 DEF ApplyColumnOp, GridEditDelta, Keys
  <2>3. AppendRows(op, b).ok /\ t = AppendRows(op, b).table
    BY <2>2
  <2> QED
    BY <1>4, <2>2, <2>3, AppendRowsBrings
<1> QED
  BY <1>1, <1>2, <1>3, <1>4 DEF IsOp, RowCell

\* While the client follows, its rows are the table's, one for each key.
ClientInv == follows => Keyed(table) /\ client = View(table)

\* What Deliver makes of a delta that brings the client along.
LEMMA DeliverKeeps ==
  ASSUME ClientInv, NEW delta, NEW t, Deliver(delta, t), table' = t,
         Keyed(table) /\ Keyed(t) /\ ~delta.full => Patched(View(table), delta, t) = View(t)
  PROVE  ClientInv'
<1>1. /\ follows' = (Keyed(t) /\ (delta.full \/ follows))
      /\ client' = IF ~follows' THEN <<>> ELSE IF delta.full THEN View(t) ELSE Patched(client, delta, t)
  BY DEF Deliver
<1>2. follows' => Keyed(t) /\ client' = View(t)
  BY <1>1 DEF ClientInv
<1> QED
  BY <1>2 DEF ClientInv, Keyed, View, RowOf, Row

\* The client begins with the table's rows.
LEMMA ClientInitial == Init => ClientInv
BY DEF Init, ClientInv

\* An edit's delta is that of its op, or a full refresh where it names no row identity.
LEMMA ApplyBrings ==
  ASSUME PipelinesAreSound, TableInv, ClientInv, NEW edit \in Edits, Apply(edit)
  PROVE  ClientInv'
<1>1. PICK t : t = ApplyColumnOp(edit.op, table).table
  OBVIOUS
<1>2. PICK delta : delta = EditDelta(edit, table)
  OBVIOUS
<1>3. /\ DecodeGridEdit(edit) /\ ApplyColumnOp(edit.op, table).ok
      /\ table' = t /\ Deliver(delta, t)
  BY <1>1, <1>2 DEF Apply
<1>4. IsOp(edit.op) /\ DecodeColumnOp(edit.op)
  BY <1>3, EditsAssumption DEF DecodeGridEdit
<1>5. delta = GridEditDelta(KeyField, table, edit.op) \/ delta = FullRefresh
  BY <1>2, <1>3, EditsAssumption DEF EditDelta, DecodeGridEdit
<1>6. ASSUME Keyed(table), Keyed(t), ~delta.full
      PROVE  Patched(View(table), delta, t) = View(t)
  <2>1. delta = GridEditDelta(KeyField, table, edit.op)
    BY <1>5, <1>6, RefreshIsFull
  <2>2. SoundTable(table)
    BY DEF TableInv
  <2> QED
    BY <1>1, <1>3, <1>4, <1>6, <2>1, <2>2, OpBrings
<1> QED
  BY <1>3, <1>6, DeliverKeeps

\* So is the delta of an undo or a redo.
LEMMA GestureBrings ==
  ASSUME TableInv, ClientInv, Undo \/ Redo
  PROVE  ClientInv'
<1>1. PICK way, s :
        /\ IsList(s) /\ s # <<>> /\ \E f : Chain(way, s, table, f)
        /\ LET op == Out(way, Head(s))
           IN  /\ ApplyColumnOp(op, table).ok
               /\ table' = ApplyColumnOp(op, table).table
               /\ Deliver(GridEditDelta(KeyField, table, op), ApplyColumnOp(op, table).table)
  <2>1. CASE Undo
    BY <2>1 DEF Undo, TableInv, Out
  <2>2. CASE Redo
    BY <2>2 DEF Redo, TableInv, Out
  <2> QED
    BY <2>1, <2>2
<1>2. PICK op : op = Out(way, Head(s))
  OBVIOUS
<1>3. PICK t : t = ApplyColumnOp(op, table).table
  OBVIOUS
<1>4. PICK delta : delta = GridEditDelta(KeyField, table, op)
  OBVIOUS
<1>5. ApplyColumnOp(op, table).ok /\ table' = t /\ Deliver(delta, t)
  BY <1>1, <1>2, <1>3, <1>4
<1>6. IsOp(op) /\ DecodeColumnOp(op)
  <2>1. PICK f : Chain(way, s, table, f)
    BY <1>1
  <2>2. TwoWay(Head(s))
    BY <1>1, <2>1, ChainTail
  <2> QED
    BY <1>2, <2>2 DEF TwoWay, Reversible, Out
<1>7. ASSUME Keyed(table), Keyed(t), ~delta.full
      PROVE  Patched(View(table), delta, t) = View(t)
  <2>1. SoundTable(table)
    BY DEF TableInv
  <2> QED
    BY <1>3, <1>4, <1>5, <1>6, <1>7, <2>1, OpBrings
<1> QED
  BY <1>5, <1>7, DeliverKeeps

\* Every step keeps the client current.
LEMMA ClientInductive ==
  ASSUME PipelinesAreSound
  PROVE  TableInv /\ ClientInv /\ [Next]_vars => ClientInv'
<1> SUFFICES ASSUME TableInv, ClientInv, [Next]_vars
             PROVE  ClientInv'
  OBVIOUS
<1>1. ASSUME NEW edit \in Edits, Apply(edit)
      PROVE  ClientInv'
  BY <1>1, ApplyBrings
<1>2. CASE Undo \/ Redo
  BY <1>2, GestureBrings
<1>3. CASE UNCHANGED vars
  BY <1>3 DEF vars, ClientInv, Keyed, View, RowOf, Row
<1> QED
  BY <1>1, <1>2, <1>3 DEF Next

\* A client that only ever took the deltas holds the rows of the table, as long as every
\* table it was shown had one key for each row: for any tables, edits and capacity, and
\* any mix of edits, undos and redos, under the same hypothesis (grid_edit.rs:355-421).
THEOREM ClientAlwaysCurrent == ASSUME PipelinesAreSound PROVE Spec => []ClientIsCurrent
<1>1. Init => TableInv /\ ClientInv
  BY TableInitial, ClientInitial
<1>2. TableInv /\ ClientInv /\ [Next]_vars => TableInv' /\ ClientInv'
  BY TableInductive, ClientInductive
<1>3. ClientInv => ClientIsCurrent
  BY DEF ClientInv, ClientIsCurrent
<1> QED
  BY <1>1, <1>2, <1>3, PTL DEF Spec
=============================================================================
