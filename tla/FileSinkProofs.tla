--------------------------- MODULE FileSinkProofs ---------------------------
(***************************************************************************)
(* For any number of sinks on one path, with and without faults: an open   *)
(* that succeeds holds every acknowledged record, and a sink with the path *)
(* to itself holds the records 1, 2, ... in order.                         *)
(***************************************************************************)
EXTENDS FileSink, TLAPS

-----------------------------------------------------------------------------
(***************************************************************************)
(* What a sink reads of a file, and what it replays.                       *)
(***************************************************************************)
ReadLine(c, read, line) == IF line = Nothing THEN read ELSE Append(read, line)
ReadFold == INSTANCE SequenceFolds WITH Op <- ReadLine

PlaceIn(range, sorted, r) == IF r.sequence \in range THEN Placed(sorted, r) ELSE sorted
ReplayFold == INSTANCE SequenceFolds WITH Op <- PlaceIn

(* What open reads is the fold of SequenceFolds. *)
LEMMA ContentIsFold == Content = ReadFold!FoldOf(0, <<>>, Append(lines, tail))
BY Zenon DEF Content, ReadFold!FoldOf, ReadLine, FoldLeft, MapThenFoldSet, Max,
             ReadFold!FoldLeft, ReadFold!MapThenFoldSet, ReadFold!Max

(* So is what replay sorts. *)
LEMMA ReplayIsFold ==
  \A rs, from, to : Replay(rs, from, to) = ReplayFold!FoldOf(from .. to, <<>>, rs)
BY Zenon DEF Replay, ReplayFold!FoldOf, PlaceIn, FoldLeft, MapThenFoldSet, Max,
             ReplayFold!FoldLeft, ReplayFold!MapThenFoldSet, ReplayFold!Max

(* What open reads are lines. *)
LEMMA ContentType ==
  ASSUME lines \in Seq(Line), tail \in Line
  PROVE  Content \in Seq(Line)
<1>1. <<>> \in Seq(Line) /\ Append(lines, tail) \in Seq(Line)
  OBVIOUS
<1>2. \A read \in Seq(Line), line \in Line : ReadLine(0, read, line) \in Seq(Line)
  BY DEF ReadLine
<1> QED
  BY <1>1, <1>2, ContentIsFold, ReadFold!FoldType

(* Lines none of which is blank are read as they are. *)
LEMMA NoBlankSkipped ==
  ASSUME NEW s \in Seq(Line), \A i \in 1 .. Len(s) : s[i] # Nothing
  PROVE  ReadFold!FoldOf(0, <<>>, s) = s
<1> DEFINE T == {t \in Seq(Line) :
                   (\A i \in 1 .. Len(t) : t[i] # Nothing) => ReadFold!FoldOf(0, <<>>, t) = t}
<1>1. <<>> \in T
  BY ReadFold!FoldEmpty
<1>2. ASSUME NEW t \in T, NEW x \in Line
      PROVE  Append(t, x) \in T
  <2>0. Append(t, x) \in Seq(Line)
    OBVIOUS
  <2>1. SUFFICES ASSUME \A i \in 1 .. Len(Append(t, x)) : Append(t, x)[i] # Nothing
                 PROVE  ReadFold!FoldOf(0, <<>>, Append(t, x)) = Append(t, x)
    BY <2>0, Zenon
  <2>2. x # Nothing /\ \A i \in 1 .. Len(t) : t[i] # Nothing
    <3>1. /\ Len(Append(t, x)) = Len(t) + 1 /\ Append(t, x)[Len(t) + 1] = x
          /\ \A i \in 1 .. Len(t) : Append(t, x)[i] = t[i]
      OBVIOUS
    <3> QED
      BY <2>1, <3>1
  <2>3. ReadFold!FoldOf(0, <<>>, t) = t
    BY <2>2
  <2> QED
    BY <2>2, <2>3, ReadFold!FoldAppend DEF ReadLine
<1> HIDE DEF T
<1>3. T = Seq(Line)
  <2>1. T \in SUBSET Seq(Line)
    BY DEF T
  <2> QED
    BY <1>1, <1>2, <2>1, ReadFold!SeqSetInduction
<1> QED
  BY <1>3 DEF T

(* A file without blank lines is read as its lines, and its tail if it has one. *)
LEMMA ContentIsLines ==
  ASSUME lines \in Seq(Line), tail \in Line, \A i \in 1 .. Len(lines) : lines[i] # Nothing
  PROVE  Content = IF tail = Nothing THEN lines ELSE Append(lines, tail)
<1>1. ReadFold!FoldOf(0, <<>>, lines) = lines
  BY NoBlankSkipped
<1> QED
  BY <1>1, ContentIsFold, ReadFold!FoldAppend DEF ReadLine

(* A record later than all of a run is placed at its end. *)
LEMMA LastIsPlacedLast ==
  ASSUME NEW s \in Seq(Record), Contiguous(s), NEW r \in Record, r.sequence = Len(s) + 1
  PROVE  Placed(s, r) = Append(s, r)
<1> DEFINE P(k) == \A i \in 1 .. Len(s) : s[i].sequence <= r.sequence <=> i < k
           at == CHOOSE k \in 1 .. Len(s) + 1 : P(k)
<1>1. Len(s) + 1 \in 1 .. Len(s) + 1 /\ P(Len(s) + 1)
  BY DEF Contiguous
<1>2. ASSUME NEW k \in 1 .. Len(s) + 1, P(k)
      PROVE  k = Len(s) + 1
  <2>1. CASE k \in 1 .. Len(s)
    BY <1>1, <1>2, <2>1
  <2> QED
    BY <2>1
<1> HIDE DEF P
<1>3. at \in 1 .. Len(s) + 1 /\ P(at)
  BY <1>1, Zenon
<1>4. at = Len(s) + 1
  BY <1>2, <1>3
<1>5. InsertAt(s, Len(s) + 1, r) = Append(s, r)
  <2>1. /\ (Len(s) + 1) - 1 = Len(s) /\ SubSeq(s, 1, Len(s)) = s
        /\ SubSeq(s, Len(s) + 1, Len(s)) = <<>>
    OBVIOUS
  <2>2. InsertAt(s, Len(s) + 1, r) = (s \o <<r>>) \o <<>>
    BY <2>1, Zenon DEF InsertAt
  <2>3. s \o <<r>> = Append(s, r) /\ s \o <<r>> \in Seq(Record)
    OBVIOUS
  <2>4. (s \o <<r>>) \o <<>> = s \o <<r>>
    BY <2>3
  <2> QED
    BY <2>2, <2>3, <2>4
<1>6. Placed(s, r) = InsertAt(s, at, r)
  BY Zenon DEF Placed, P
<1> QED
  BY <1>4, <1>5, <1>6

(* Records 1, 2, ... are replayed as they are held. *)
LEMMA HeldInOrder ==
  ASSUME NEW rs \in Seq(Record), Contiguous(rs), NEW to \in Nat, Len(rs) <= to
  PROVE  Replay(rs, 1, to) = rs
<1> DEFINE T == {s \in Seq(Record) : Contiguous(s) /\ Len(s) <= to =>
                                        ReplayFold!FoldOf(1 .. to, <<>>, s) = s}
<1>1. <<>> \in T
  BY ReplayFold!FoldEmpty
<1>2. ASSUME NEW s \in T, NEW r \in Record
      PROVE  Append(s, r) \in T
  <2>1. SUFFICES ASSUME Contiguous(Append(s, r)), Len(Append(s, r)) <= to
                 PROVE  ReplayFold!FoldOf(1 .. to, <<>>, Append(s, r)) = Append(s, r)
    OBVIOUS
  <2>2. /\ Len(Append(s, r)) = Len(s) + 1 /\ Append(s, r)[Len(s) + 1] = r
        /\ \A i \in 1 .. Len(s) : Append(s, r)[i] = s[i]
    OBVIOUS
  <2>3. Contiguous(s) /\ Len(s) <= to /\ r.sequence = Len(s) + 1 /\ r.sequence \in 1 .. to
    BY <2>1, <2>2 DEF Contiguous
  <2>4. ReplayFold!FoldOf(1 .. to, <<>>, s) = s
    BY <2>3
  <2>5. ReplayFold!FoldOf(1 .. to, <<>>, Append(s, r)) = PlaceIn(1 .. to, s, r)
    BY <2>4, ReplayFold!FoldAppend
  <2> QED
    BY <2>3, <2>5, LastIsPlacedLast DEF PlaceIn
<1> HIDE DEF T
<1>3. T = Seq(Record)
  <2>1. T \in SUBSET Seq(Record)
    BY DEF T
  <2> QED
    BY <1>1, <1>2, <2>1, ReplayFold!SeqSetInduction
<1>4. ReplayFold!FoldOf(1 .. to, <<>>, rs) = rs
  BY <1>3 DEF T
<1> QED
  BY <1>4, ReplayIsFold

(* The latest of them is their number. *)
LEMMA LatestIsLength ==
  ASSUME NEW rs \in Seq(Record), Contiguous(rs)
  PROVE  LatestSequence(rs) = Len(rs)
<1>1. CASE rs = <<>>
  BY <1>1 DEF LatestSequence
<1>2. CASE rs # <<>>
  <2> DEFINE N == {rs[i].sequence : i \in 1 .. Len(rs)}
             P(n) == \A i \in 1 .. Len(rs) : rs[i].sequence <= n
             top == CHOOSE n \in N : P(n)
  <2>1. Len(rs) \in Nat /\ Len(rs) \in 1 .. Len(rs) /\ rs[Len(rs)].sequence = Len(rs)
    BY <1>2 DEF Contiguous
  <2>2. Len(rs) \in N /\ P(Len(rs))
    BY <2>1 DEF Contiguous
  <2>3. ASSUME NEW n \in N, P(n)
        PROVE  n = Len(rs)
    BY <2>1, <2>3 DEF Contiguous
  <2> HIDE DEF P, N
  <2>4. top \in N /\ P(top)
    BY <2>2, Zenon
  <2>5. top = Len(rs)
    BY <2>3, <2>4
  <2>6. LatestSequence(rs) = top
    BY <1>2, Zenon DEF LatestSequence, P, N
  <2> QED
    BY <2>5, <2>6
<1> QED
  BY <1>1, <1>2

-----------------------------------------------------------------------------
(***************************************************************************)
(* A path that any number of sinks share.                                  *)
(***************************************************************************)
(* An empty file with no sink on it satisfies SinkInv. *)
LEMMA InitSinkInv == Init => SinkInv
BY LineAssumption DEF Init, SinkInv, Line, Parses

(* Steps that leave the file and the line under way alone. *)
LEMMA OpenStep ==
  ASSUME SinkInv, NEW h \in Handle, Open(h) \/ Close(h)
  PROVE  SinkInv'
BY DEF SinkInv, Open, Close, Line, Parses, Written

(* A record taken in hand is in no line yet. *)
LEMMA BeginAppendStep ==
  ASSUME SinkInv, NEW h \in Handle, NEW n \in Nat, BeginAppend(h, n)
  PROVE  SinkInv'
<1>1. [sequence |-> n, attempt |-> appends + 1] \in Record
  BY DEF SinkInv, Record
<1>2. QED
  BY <1>1 DEF SinkInv, BeginAppend, Line, Parses, Written

(* A line lands on an empty tail, or the file stops parsing. *)
LEMMA WriteLineStep ==
  ASSUME SinkInv, NEW h \in Handle, WriteLine(h)
  PROVE  SinkInv'
BY LineAssumption DEF SinkInv, WriteLine, After, Line, Parses, Written

(* The newline moves the tail among the lines, where the acknowledged record *)
(* is, unless it was joined to another.                                      *)
LEMMA WriteNewlineStep ==
  ASSUME SinkInv, NEW h \in Handle, WriteNewline(h)
  PROVE  SinkInv'
<1>1. /\ lines \in Seq(Line) /\ tail \in Line
      /\ lines' = Append(lines, tail) /\ tail' = Nothing
      /\ phase[h] = "newline" /\ acked' = acked \cup {writing[h]}
      /\ writing' = [writing EXCEPT ![h] = Nothing]
      /\ phase' = [phase EXCEPT ![h] = "open"]
  BY DEF SinkInv, WriteNewline
<1>2. /\ lines' \in Seq(Line) /\ Len(lines') = Len(lines) + 1
      /\ \A i \in 1 .. Len(lines) : lines'[i] = lines[i]
      /\ lines'[Len(lines) + 1] = tail
  BY <1>1
<1>3. \A r : Written(r) => Written(r)'
  BY <1>1, <1>2 DEF Written
<1>4. Parses' => Parses
  BY <1>1, <1>2 DEF Parses
<1>5. Written(writing[h]) \/ ~Parses
  BY <1>1 DEF SinkInv
<1>6. QED
  BY <1>1, <1>2, <1>3, <1>4, <1>5, LineAssumption DEF SinkInv, WriteNewline, Line, Written

(* A write that ended early changes the tail to one that does not parse, or  *)
(* to the line it was writing.                                               *)
LEMMA TornStep ==
  ASSUME SinkInv, NEW h \in Handle, WriteFails(h) \/ Crash(h)
  PROVE  SinkInv'
<1>1. tail' \in {tail, Junk, After(writing[h])} /\ (phase[h] \notin {"line", "newline"} => tail' = tail)
  BY DEF WriteFails, Crash, Torn
<1>2. tail' = tail \/ tail' = Junk \/ tail = Nothing
  BY <1>1 DEF After
<1>3. tail' \in Line
  BY <1>1, LineAssumption DEF SinkInv, Crash, WriteFails, Torn, After, Line
<1>4. lines' = lines
  BY DEF WriteFails, Crash
<1>5. QED
  BY <1>2, <1>3, <1>4, LineAssumption DEF SinkInv, WriteFails, Crash, Line, Parses, Written

(* Every step keeps SinkInv. *)
LEMMA NextSinkInv == SinkInv /\ [Next]_vars => SinkInv'
<1> SUFFICES ASSUME SinkInv, [Next]_vars
             PROVE  SinkInv'
  OBVIOUS
<1>1. ASSUME NEW h \in Handle, NEW n \in 1 .. LatestSequence(records[h]) + 1,
             BeginAppend(h, n)
      PROVE  SinkInv'
  <2>1. n \in Nat
    OBVIOUS
  <2>2. QED
    BY <1>1, <2>1, BeginAppendStep
<1>2. CASE UNCHANGED vars
  BY <1>2 DEF vars, SinkInv, Parses, Written
<1>3. QED
  BY <1>1, <1>2, OpenStep, WriteLineStep, WriteNewlineStep, TornStep DEF Next

(* Whatever crashes, failed writes and other sinks did to the file: if it    *)
(* opens, no acknowledged record is missing.                                 *)
THEOREM AcknowledgedIsRecovered == Spec => []OpenNeverDrops
<1>1. SinkInv => OpenNeverDrops
  BY DEF SinkInv, OpenNeverDrops, Written
<1>2. QED
  BY <1>1, InitSinkInv, NextSinkInv, PTL DEF Spec

-----------------------------------------------------------------------------
(***************************************************************************)
(* A path that one sink at a time is open on.                              *)
(***************************************************************************)
LEMMA InitContigInv == Init => ContigInv
<1> SUFFICES ASSUME Init
             PROVE  OwnPath /\ records \in [Handle -> Seq(Line)]
  BY InitSinkInv DEF ContigInv
<1>1. <<>> \in Seq(Record) /\ <<>> \in Seq(Line)
  OBVIOUS
<1>2. OwnPath
  BY <1>1 DEF Init, OwnPath, OneSink, FileContiguous, SinkContiguous, Contiguous
<1>3. records \in [Handle -> Seq(Line)]
  BY <1>1 DEF Init
<1> QED
  BY <1>2, <1>3

(* What a sink holds is lines. *)
LEMMA NextRecordsType ==
  ASSUME SinkInv, records \in [Handle -> Seq(Line)], NEW h \in Handle, NEW n,
         \/ Open(h) \/ BeginAppend(h, n) \/ WriteLine(h) \/ WriteNewline(h)
         \/ WriteFails(h) \/ Crash(h) \/ Close(h)
  PROVE  records' \in [Handle -> Seq(Line)]
<1>1. <<>> \in Seq(Line)
  OBVIOUS
<1>2. CASE Open(h)
  <2>1. Content \in Seq(Line)
    BY ContentType DEF SinkInv
  <2> HIDE DEF Content
  <2> QED
    BY <1>2, <2>1 DEF Open
<1>3. CASE WriteNewline(h)
  <2>1. writing[h] \in Line
    BY <1>3 DEF SinkInv, WriteNewline, Line
  <2>2. Append(records[h], writing[h]) \in Seq(Line)
    BY <2>1
  <2> QED
    BY <1>3, <2>2 DEF WriteNewline
<1> QED
  BY <1>1, <1>2, <1>3 DEF BeginAppend, WriteLine, WriteFails, Crash, Close

(* The sinks that are not open say nothing of the file. *)
LEMMA OthersOwnPath ==
  ASSUME SinkInv, OwnPath, NEW h \in Handle, \A g \in Handle : g # h => phase[g] = "closed",
         NEW p, phase' = [phase EXCEPT ![h] = p],
         \A g \in Handle : g # h => records'[g] = records[g]
  PROVE  OneSink' /\ \A g \in Handle : g # h => SinkContiguous(g)'
<1>1. /\ phase \in [Handle -> {"closed", "open", "line", "newline"}]
      /\ \A g \in Handle : records[g] \in Seq(Record) /\ Contiguous(records[g])
  BY DEF SinkInv, OwnPath, SinkContiguous
<1>2. \A g \in Handle : g # h => phase'[g] = "closed"
  BY <1>1
<1>3. ASSUME NEW g \in Handle, g # h
      PROVE  SinkContiguous(g)'
  <2>1. records'[g] = records[g] /\ phase'[g] = "closed"
    BY <1>2, <1>3
  <2> QED
    BY <1>1, <2>1 DEF SinkContiguous, Contiguous
<1> QED
  BY <1>2, <1>3 DEF OneSink

(* A step of the sink that is open is of no other. *)
LEMMA OnlyOneOpen ==
  ASSUME OwnPath, NEW h \in Handle, phase[h] # "closed"
  PROVE  \A g \in Handle : g # h => phase[g] = "closed"
BY DEF OwnPath, OneSink

(* What opens on it holds the lines, and a whole record left in the tail. *)
LEMMA OpenOwnPath ==
  ASSUME SinkInv, DOMAIN records = Handle, OwnPath, NEW h \in Handle, Open(h), ~shared
  PROVE  OwnPath'
<1>1. /\ lines \in Seq(Line) /\ tail \in Line /\ Parses
      /\ FileContiguous /\ \A g \in Handle : SinkContiguous(g) /\ phase[g] = "closed"
      /\ lines' = lines /\ tail' = tail
      /\ phase' = [phase EXCEPT ![h] = "open"] /\ phase'[h] = "open"
      /\ records' = [records EXCEPT ![h] = Content]
  BY DEF SinkInv, OwnPath, Open
<1>2. Content = IF tail = Nothing THEN lines ELSE Append(lines, tail)
  BY <1>1, ContentIsLines DEF FileContiguous
<1>3. lines \in Seq(Record) /\ Contiguous(lines)
  <2>1. \A i \in 1 .. Len(lines) : lines[i] \in Record
    BY <1>1 DEF FileContiguous, Parses, Line
  <2> QED
    BY <1>1, <2>1 DEF FileContiguous
<1>4. tail # Nothing => tail \in Record /\ tail.sequence = Len(lines) + 1
  BY <1>1 DEF FileContiguous, Parses, Line
<1>5. Content \in Seq(Record) /\ Contiguous(Content)
  BY <1>2, <1>3, <1>4 DEF Contiguous
<1>6. records'[h] = Content /\ \A g \in Handle : g # h => records'[g] = records[g]
  BY <1>1
<1>7. OneSink' /\ \A g \in Handle : g # h => SinkContiguous(g)'
  BY <1>1, <1>6, OthersOwnPath
<1>8. FileContiguous'
  BY <1>1 DEF FileContiguous, Parses, Contiguous
<1>9. SinkContiguous(h)'
  <2>1. tail = Nothing => records'[h] = lines
    BY <1>2, <1>6
  <2> QED
    BY <1>1, <1>5, <1>6, <2>1 DEF SinkContiguous, Contiguous
<1> QED
  BY <1>7, <1>8, <1>9 DEF OwnPath

(* What it appends next has the next sequence: it is no duplicate. *)
LEMMA BeginAppendOwnPath ==
  ASSUME SinkInv, DOMAIN records = Handle, OwnPath, NEW h \in Handle,
         NEW n \in 1 .. LatestSequence(records[h]) + 1, BeginAppend(h, n)
  PROVE  OwnPath'
<1>1. /\ records[h] \in Seq(Record) /\ Contiguous(records[h])
      /\ FileContiguous /\ SinkContiguous(h)
      /\ lines' = lines /\ tail' = tail /\ records' = records
      /\ phase[h] = "open" /\ phase' = [phase EXCEPT ![h] = "line"] /\ phase'[h] = "line"
      /\ writing'[h] = [sequence |-> n, attempt |-> appends + 1]
      /\ ~IsDuplicate(records[h], writing'[h])
  BY DEF SinkInv, OwnPath, SinkContiguous, BeginAppend
<1>2. n = Len(records[h]) + 1
  <2>1. n \in 1 .. Len(records[h]) + 1
    BY <1>1, LatestIsLength
  <2>2. \A i \in 1 .. Len(records[h]) : i # n
    BY <1>1 DEF IsDuplicate, Contiguous
  <2> QED
    BY <1>1, <2>1, <2>2
<1>3. OneSink' /\ \A g \in Handle : g # h => SinkContiguous(g)'
  <2>1. \A g \in Handle : g # h => phase[g] = "closed" /\ records'[g] = records[g]
    BY <1>1, OnlyOneOpen
  <2> QED
    BY <1>1, <2>1, OthersOwnPath
<1>4. FileContiguous'
  BY <1>1 DEF FileContiguous, Parses, Contiguous
<1>5. SinkContiguous(h)'
  BY <1>1, <1>2 DEF SinkContiguous, Parses, Contiguous
<1> QED
  BY <1>3, <1>4, <1>5 DEF OwnPath

(* Its line lands on an empty tail, next after the lines it holds, or the    *)
(* file parses no more.                                                      *)
LEMMA WriteLineOwnPath ==
  ASSUME SinkInv, OwnPath, NEW h \in Handle, WriteLine(h)
  PROVE  OwnPath'
<1>1. /\ FileContiguous /\ SinkContiguous(h) /\ writing[h] \in Record
      /\ lines' = lines /\ tail' = After(writing[h]) /\ records' = records /\ writing' = writing
      /\ phase[h] = "line" /\ phase' = [phase EXCEPT ![h] = "newline"] /\ phase'[h] = "newline"
  BY DEF SinkInv, OwnPath, WriteLine
<1>2. OneSink' /\ \A g \in Handle : g # h => SinkContiguous(g)'
  <2>1. \A g \in Handle : g # h => phase[g] = "closed" /\ records'[g] = records[g]
    BY <1>1, OnlyOneOpen
  <2> QED
    BY <1>1, <2>1, OthersOwnPath
<1>3. tail' # Nothing /\ (Parses' => Parses /\ tail = Nothing /\ tail' = writing[h])
  BY <1>1, LineAssumption DEF After, Parses
<1>4. Parses' => Contiguous(lines) /\ records[h] = lines /\ writing[h].sequence = Len(lines) + 1
  BY <1>1, <1>3 DEF FileContiguous, SinkContiguous
<1>5. FileContiguous'
  BY <1>1, <1>3, <1>4 DEF FileContiguous, Contiguous
<1>6. SinkContiguous(h)'
  BY <1>1, <1>3, <1>4 DEF SinkContiguous, Contiguous
<1> QED
  BY <1>2, <1>5, <1>6 DEF OwnPath

(* The newline makes that line one of the file's, as the record is the       *)
(* sink's.                                                                   *)
LEMMA WriteNewlineOwnPath ==
  ASSUME SinkInv, DOMAIN records = Handle, OwnPath, NEW h \in Handle, WriteNewline(h)
  PROVE  OwnPath'
<1>1. /\ FileContiguous /\ SinkContiguous(h) /\ writing[h] \in Record
      /\ lines \in Seq(Line) /\ tail \in Line
      /\ lines' = Append(lines, tail) /\ tail' = Nothing
      /\ records'[h] = Append(records[h], writing[h])
      /\ \A g \in Handle : g # h => records'[g] = records[g]
      /\ phase[h] = "newline" /\ phase' = [phase EXCEPT ![h] = "open"] /\ phase'[h] = "open"
  BY DEF SinkInv, OwnPath, WriteNewline
<1>2. OneSink' /\ \A g \in Handle : g # h => SinkContiguous(g)'
  <2>1. \A g \in Handle : g # h => phase[g] = "closed" /\ records'[g] = records[g]
    BY <1>1, OnlyOneOpen
  <2> QED
    BY <1>1, <2>1, OthersOwnPath
<1>3. /\ Len(lines') = Len(lines) + 1 /\ lines'[Len(lines) + 1] = tail /\ Len(lines) \in Nat
      /\ \A i \in 1 .. Len(lines) : lines'[i] = lines[i]
  BY <1>1
<1>4. /\ records[h] \in Seq(Record) /\ Contiguous(records[h]) /\ tail # Nothing
      /\ writing[h].sequence = Len(records[h]) + 1
  BY <1>1 DEF SinkContiguous
<1>5. records'[h] \in Seq(Record) /\ Contiguous(records'[h])
  BY <1>1, <1>4 DEF Contiguous
<1>6. Parses' => Parses
  BY <1>1, <1>3 DEF Parses
<1>7. Parses' => records'[h] = lines'
  BY <1>1, <1>6 DEF SinkContiguous
<1>8. FileContiguous'
  <2>1. \A i \in 1 .. Len(lines') : lines'[i] # Nothing
    BY <1>1, <1>3, <1>4 DEF FileContiguous
  <2>2. Parses' => Contiguous(lines')
    BY <1>5, <1>7
  <2> QED
    BY <1>1, <2>1, <2>2 DEF FileContiguous, Contiguous
<1>9. SinkContiguous(h)'
  BY <1>1, <1>5, <1>7 DEF SinkContiguous, Contiguous
<1> QED
  BY <1>2, <1>8, <1>9 DEF OwnPath

(* A write that ended early leaves the whole line, which is next, or one     *)
(* that does not parse.                                                      *)
LEMMA TornOwnPath ==
  ASSUME SinkInv, DOMAIN records = Handle, OwnPath, NEW h \in Handle, WriteFails(h) \/ Crash(h)
  PROVE  OwnPath'
<1>1. /\ FileContiguous /\ SinkContiguous(h) /\ phase[h] # "closed"
      /\ lines' = lines /\ tail' \in Torn(h)
      /\ \A g \in Handle : g # h => records'[g] = records[g]
  BY DEF SinkInv, OwnPath, WriteFails, Crash
<1>2. OneSink' /\ \A g \in Handle : g # h => SinkContiguous(g)'
  <2>1. \A g \in Handle : g # h => phase[g] = "closed"
    BY <1>1, OnlyOneOpen
  <2>2. PICK p : phase' = [phase EXCEPT ![h] = p]
    BY DEF WriteFails, Crash
  <2> QED
    BY <1>1, <2>1, <2>2, OthersOwnPath
<1>3. phase[h] = "line" => writing[h] # Nothing
  BY LineAssumption DEF SinkInv
<1>4. \/ tail' = tail
      \/ phase[h] = "line" /\ tail' = Junk
      \/ phase[h] = "line" /\ tail = Nothing /\ tail' = writing[h]
  BY <1>1 DEF Torn, After
<1>5. Parses' => Parses
  BY <1>1, <1>4, LineAssumption DEF Parses
<1>6. ASSUME Parses', tail' # tail
      PROVE  tail' = writing[h] /\ tail = Nothing /\ phase[h] = "line"
  <2>1. tail' # Junk
    BY <1>6 DEF Parses
  <2> QED
    BY <1>4, <1>6, <2>1
<1>7. /\ Contiguous(records[h]) /\ records[h] \in Seq(Record)
      /\ tail' # tail /\ Parses' => /\ tail' = writing[h] /\ tail' # Nothing
                                    /\ writing[h].sequence = Len(lines) + 1
  BY <1>3, <1>1, <1>5, <1>6 DEF SinkContiguous
<1>8. FileContiguous'
  BY <1>1, <1>5, <1>7 DEF FileContiguous, Contiguous
<1>9. SinkContiguous(h)'
  <2>1. CASE WriteFails(h)
    <3>1. records'[h] = records[h] /\ phase'[h] = "open" /\ phase[h] \in {"line", "newline"}
      BY <2>1 DEF SinkInv, WriteFails
    <3>2. Parses' /\ tail' = tail => records[h] = lines \/ tail' # Nothing
      BY <1>1, <1>5, <3>1 DEF SinkContiguous
    <3> QED
      BY <1>1, <1>7, <3>1, <3>2 DEF SinkContiguous, Contiguous
  <2>2. CASE Crash(h)
    <3>1. records'[h] = <<>> /\ phase'[h] = "closed" /\ <<>> \in Seq(Record)
      BY <2>2 DEF SinkInv, Crash
    <3> QED
      BY <3>1 DEF SinkContiguous, Contiguous
  <2> QED
    BY <2>1, <2>2
<1> QED
  BY <1>2, <1>8, <1>9 DEF OwnPath

(* A sink that closes leaves its path to the next as it should. *)
LEMMA CloseOwnPath ==
  ASSUME SinkInv, DOMAIN records = Handle, OwnPath, NEW h \in Handle, Close(h)
  PROVE  OwnPath'
<1>1. /\ FileContiguous /\ phase[h] = "open" /\ lines' = lines /\ tail' = tail
      /\ phase' = [phase EXCEPT ![h] = "closed"] /\ phase'[h] = "closed"
      /\ records'[h] = <<>> /\ \A g \in Handle : g # h => records'[g] = records[g]
  BY DEF SinkInv, OwnPath, Close
<1>2. OneSink' /\ \A g \in Handle : g # h => SinkContiguous(g)'
  <2>1. \A g \in Handle : g # h => phase[g] = "closed"
    BY <1>1, OnlyOneOpen
  <2> QED
    BY <1>1, <2>1, OthersOwnPath
<1>3. FileContiguous'
  BY <1>1 DEF FileContiguous, Parses, Contiguous
<1>4. <<>> \in Seq(Record)
  OBVIOUS
<1>5. SinkContiguous(h)'
  BY <1>1, <1>4 DEF SinkContiguous, Contiguous
<1> QED
  BY <1>2, <1>3, <1>5 DEF OwnPath

(* Every step keeps ContigInv. *)
LEMMA NextContigInv == ContigInv /\ [Next]_vars => ContigInv'
<1> SUFFICES ASSUME ContigInv, [Next]_vars
             PROVE  ContigInv'
  OBVIOUS
<1>1. SinkInv /\ SinkInv' /\ records \in [Handle -> Seq(Line)] /\ DOMAIN records = Handle
  BY NextSinkInv DEF ContigInv
<1>2. CASE Next
  <2>1. shared' = shared
    BY <1>2 DEF Next
  <2>2. PICK h \in Handle :
          \/ Open(h)
          \/ \E n \in 1 .. LatestSequence(records[h]) + 1 : BeginAppend(h, n)
          \/ WriteLine(h) \/ WriteNewline(h)
          \/ WriteFails(h) \/ Crash(h) \/ Close(h)
    BY <1>2 DEF Next
  <2>3. records' \in [Handle -> Seq(Line)]
    BY <1>1, <2>2, NextRecordsType
  <2>4. ASSUME ~shared
        PROVE  OwnPath'
    BY <1>1, <2>2, <2>4, OpenOwnPath, BeginAppendOwnPath, WriteLineOwnPath,
       WriteNewlineOwnPath, TornOwnPath, CloseOwnPath DEF ContigInv
  <2> QED
    BY <1>1, <2>1, <2>3, <2>4 DEF ContigInv
<1>3. CASE UNCHANGED vars
  BY <1>1, <1>3 DEF vars, ContigInv, OwnPath, OneSink, FileContiguous, SinkContiguous,
                    Parses, Contiguous
<1> QED
  BY <1>2, <1>3

(* Where one sink at a time has the path, it holds a contiguous stream from  *)
(* sequence 1, through every crash and failed write it can be opened after,  *)
(* and replays it whole and in order.                                        *)
THEOREM OpenedAlwaysContiguous == Spec => []OpenedIsContiguous
<1>1. ContigInv => OpenedIsContiguous
  <2> SUFFICES ASSUME ContigInv, ~shared, NEW h \in Handle
               PROVE  /\ LatestSequence(records[h]) = Len(records[h])
                      /\ Replay(records[h], 1, LatestSequence(records[h])) = records[h]
    BY DEF OpenedIsContiguous
  <2>1. records[h] \in Seq(Record) /\ Contiguous(records[h])
    BY DEF ContigInv, OwnPath, SinkContiguous
  <2>2. Len(records[h]) \in Nat /\ Len(records[h]) <= Len(records[h])
    BY <2>1
  <2> QED
    BY <2>1, <2>2, LatestIsLength, HeldInOrder
<1>2. QED
  BY <1>1, InitContigInv, NextContigInv, PTL DEF Spec
=============================================================================
