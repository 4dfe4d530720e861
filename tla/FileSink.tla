------------------------------ MODULE FileSink ------------------------------
(***************************************************************************)
(* The JSONL op-stream sink of src/opstream/sink.rs: one file, the handles *)
(* that open it, and what a write leaves behind when the process dies or   *)
(* the disk refuses half way.                                              *)
(*                                                                         *)
(* The file is what open reads: the lines that end in a newline, and a     *)
(* tail that does not.  writeln! on a File is two writes, the line and the *)
(* newline, so each is a step.  What a line holds is abstracted to the     *)
(* record it parses as, or Junk: a strict prefix of a record's JSON never  *)
(* parses, nor do two records on one line.                                 *)
(***************************************************************************)
EXTENDS Naturals, Sequences, SequencesExt

CONSTANTS
  Handle,       \* the FileSink values that may be open on the path
  Faults,       \* TRUE: a process may die and a write may fail
  Junk,         \* a line parse_record refuses
  Nothing,      \* the empty tail, a blank line
  MaxRecords,   \* bound: sequence numbers
  MaxAppends    \* bound: appends begun

ASSUME SinkAssumption ==
  /\ Faults \in BOOLEAN
  /\ MaxRecords \in Nat
  /\ MaxAppends \in Nat

(* A record is its sequence and the append that built it. *)
Record == [sequence : Nat, attempt : Nat]

ASSUME LineAssumption == Junk \notin Record /\ Nothing \notin Record /\ Junk # Nothing

VARIABLES
  lines,      \* the newline-terminated lines of the file
  tail,       \* what follows the last newline
  phase,      \* where each handle is
  records,    \* each handle's copy of the records (FileSink::records)
  writing,    \* the record each handle is appending
  appends,    \* how many appends were begun, by any handle
  acked,      \* the records whose append returned Ok
  shared      \* how the path is used: several sinks at a time, or one

vars == <<lines, tail, phase, records, writing, appends, acked, shared>>

Line == Record \cup {Junk, Nothing}

(* Shapes, and a record is in hand exactly while an append is under way. *)
Init ==
  /\ lines = <<>>
  /\ tail = Nothing
  /\ phase = [h \in Handle |-> "closed"]
  /\ records = [h \in Handle |-> <<>>]
  /\ writing = [h \in Handle |-> Nothing]
  /\ appends = 0
  /\ acked = {}
  /\ shared \in BOOLEAN

-----------------------------------------------------------------------------
(* latest: the highest sequence observed, 0 when empty. *)
LatestSequence(rs) ==
  IF rs = <<>> THEN 0
  ELSE CHOOSE n \in {rs[i].sequence : i \in 1 .. Len(rs)} :
         \A i \in 1 .. Len(rs) : rs[i].sequence <= n

(* sort_by_key is stable: a record goes after those of its own sequence. *)
Placed(sorted, r) ==
  LET at == CHOOSE k \in 1 .. Len(sorted) + 1 :
              \A i \in 1 .. Len(sorted) : sorted[i].sequence <= r.sequence <=> i < k
  IN  InsertAt(sorted, at, r)

(* in_range: the records with sequence in from .. to, ascending. *)
Replay(rs, from, to) ==
  FoldLeft(LAMBDA sorted, r : IF r.sequence \in from .. to THEN Placed(sorted, r) ELSE sorted,
           <<>>, rs)

IsDuplicate(rs, r) == \E i \in 1 .. Len(rs) : rs[i].sequence = r.sequence

(* parse_record accepts every line of the file. *)
Parses == tail # Junk /\ \A i \in 1 .. Len(lines) : lines[i] # Junk

(* What open reads: text.lines(), the blank ones skipped. *)
Content ==
  FoldLeft(LAMBDA read, line : IF line = Nothing THEN read ELSE Append(read, line),
           <<>>, Append(lines, tail))

(* FileSink::open: every line must parse, or nothing is opened.  Nothing     *)
(* locks the file; a path that is not shared is so by its hosts' choice.     *)
Open(h) ==
  /\ phase[h] = "closed"
  /\ shared \/ \A g \in Handle : phase[g] = "closed"
  /\ Parses
  /\ phase' = [phase EXCEPT ![h] = "open"]
  /\ records' = [records EXCEPT ![h] = Content]
  /\ UNCHANGED <<lines, tail, writing, appends, acked>>

(* Mutated form: no duplicate check. *)
BeginAppendUnchecked(h, n) ==
  /\ phase[h] = "open"
  /\ appends < MaxAppends
  /\ n <= MaxRecords
  /\ writing' = [writing EXCEPT ![h] = [sequence |-> n, attempt |-> appends + 1]]
  /\ phase' = [phase EXCEPT ![h] = "line"]
  /\ appends' = appends + 1
  /\ UNCHANGED <<lines, tail, records, acked>>

(* append up to the write: the caller assigned n from a latest_sequence it   *)
(* read, the duplicate check looks at the handle's own copy.                 *)
BeginAppend(h, n) ==
  LET r == [sequence |-> n, attempt |-> appends + 1]
  IN  /\ phase[h] = "open"
      /\ appends < MaxAppends
      /\ n <= MaxRecords
      /\ ~IsDuplicate(records[h], r)
      /\ writing' = [writing EXCEPT ![h] = r]
      /\ phase' = [phase EXCEPT ![h] = "line"]
      /\ appends' = appends + 1
      /\ UNCHANGED <<lines, tail, records, acked>>

(* The file is opened for append, so a line lands after whatever is there. *)
After(text) == IF tail = Nothing THEN text ELSE Junk

WriteLine(h) ==
  /\ phase[h] = "line"
  /\ tail' = After(writing[h])
  /\ phase' = [phase EXCEPT ![h] = "newline"]
  /\ UNCHANGED <<lines, records, writing, appends, acked>>

(* The newline ends whatever the tail is, and append pushes and answers Ok. *)
WriteNewline(h) ==
  /\ phase[h] = "newline"
  /\ lines' = Append(lines, tail)
  /\ tail' = Nothing
  /\ records' = [records EXCEPT ![h] = Append(@, writing[h])]
  /\ acked' = acked \cup {writing[h]}
  /\ writing' = [writing EXCEPT ![h] = Nothing]
  /\ phase' = [phase EXCEPT ![h] = "open"]
  /\ UNCHANGED appends

(* What a write that ended early may have left of the line. *)
Torn(h) == IF phase[h] = "line" THEN {tail, Junk, After(writing[h])} ELSE {tail}

(* Mutated form: the record is counted although its write failed. *)
WriteFailsCounted(h) ==
  /\ Faults
  /\ phase[h] \in {"line", "newline"}
  /\ tail' \in Torn(h)
  /\ records' = [records EXCEPT ![h] = Append(@, writing[h])]
  /\ acked' = acked \cup {writing[h]}
  /\ writing' = [writing EXCEPT ![h] = Nothing]
  /\ phase' = [phase EXCEPT ![h] = "open"]
  /\ UNCHANGED <<lines, appends>>

(* SinkError::Io: the handle stays open, its records as they were. *)
WriteFails(h) ==
  /\ Faults
  /\ phase[h] \in {"line", "newline"}
  /\ tail' \in Torn(h)
  /\ writing' = [writing EXCEPT ![h] = Nothing]
  /\ phase' = [phase EXCEPT ![h] = "open"]
  /\ UNCHANGED <<lines, records, appends, acked>>

(* The process dies, at any point. *)
Crash(h) ==
  /\ Faults
  /\ phase[h] # "closed"
  /\ tail' \in Torn(h)
  /\ phase' = [phase EXCEPT ![h] = "closed"]
  /\ records' = [records EXCEPT ![h] = <<>>]
  /\ writing' = [writing EXCEPT ![h] = Nothing]
  /\ UNCHANGED <<lines, appends, acked>>

(* The sink is dropped between appends. *)
Close(h) ==
  /\ phase[h] = "open"
  /\ phase' = [phase EXCEPT ![h] = "closed"]
  /\ records' = [records EXCEPT ![h] = <<>>]
  /\ UNCHANGED <<lines, tail, writing, appends, acked>>

Next ==
  /\ UNCHANGED shared
  /\ \E h \in Handle :
       \/ Open(h)
       \/ \E n \in 1 .. LatestSequence(records[h]) + 1 : BeginAppend(h, n)
       \/ WriteLine(h)
       \/ WriteNewline(h)
       \/ WriteFails(h)
       \/ Crash(h)
       \/ Close(h)

Spec == Init /\ [][Next]_vars

-----------------------------------------------------------------------------
(***************************************************************************)
(* Properties                                                              *)
(***************************************************************************)
(* open is all or nothing: whatever crashes, failed writes and other       *)
(* handles did to the file, a sink that opens on it holds every record an  *)
(* append ever answered Ok.  Records may become unreadable, never missing. *)
OpenNeverDrops ==
  Parses => \A r \in acked : tail = r \/ \E i \in 1 .. Len(lines) : lines[i] = r

(* Where one sink at a time is open on the path, it is a contiguous stream *)
(* from sequence 1, through every crash it can be opened after: replay(1,  *)
(* latest) is the records in the order they are held, none missing, none   *)
(* twice.  On a shared path the duplicate check of append sees only the    *)
(* handle's own copy, and this fails.                                      *)
OpenedIsContiguous ==
  ~shared =>
    \A h \in Handle :
      /\ LatestSequence(records[h]) = Len(records[h])
      /\ Replay(records[h], 1, LatestSequence(records[h])) = records[h]

(* "Reopening the same path recovers the full chain.": the file a sink      *)
(* acknowledged records to can be opened again.                            *)
ReopenRecovers == acked # {} => Parses

-----------------------------------------------------------------------------
(* The inductive strengthening of OpenNeverDrops: a line that was written is *)
(* in the file too, unless the file no longer parses.                        *)
Written(r) == tail = r \/ \E i \in 1 .. Len(lines) : lines[i] = r

SinkInv ==
  /\ lines \in Seq(Line) /\ tail \in Line
  /\ phase \in [Handle -> {"closed", "open", "line", "newline"}]
  /\ writing \in [Handle -> Record \cup {Nothing}]
  /\ \A h \in Handle : phase[h] \in {"line", "newline"} => writing[h] \in Record
  /\ appends \in Nat /\ acked \subseteq Record
  /\ Parses => /\ \A r \in acked : Written(r)
               /\ \A h \in Handle : phase[h] = "newline" => Written(writing[h])

(* The inductive strengthening of OpenedIsContiguous, where one sink at a    *)
(* time has the path.  The records are 1, 2, ..., and while the file parses  *)
(* so are its lines and a record left in its tail, which the sink that left  *)
(* it there does not hold: its next append joins it to another line, and the *)
(* file parses no more.                                                      *)
Contiguous(rs) == \A i \in 1 .. Len(rs) : rs[i].sequence = i

OneSink == \A g, h \in Handle : phase[g] # "closed" /\ phase[h] # "closed" => g = h

FileContiguous ==
  /\ \A i \in 1 .. Len(lines) : lines[i] # Nothing
  /\ Parses => /\ Contiguous(lines)
               /\ tail # Nothing => tail.sequence = Len(lines) + 1

(* What the sink h holds, against the file. *)
SinkContiguous(h) ==
  /\ records[h] \in Seq(Record) /\ Contiguous(records[h])
  /\ phase[h] \in {"line", "newline"} => writing[h].sequence = Len(records[h]) + 1
  /\ phase[h] = "newline" => tail # Nothing
  /\ Parses => /\ phase[h] \in {"open", "line"} => records[h] = lines \/ tail # Nothing
               /\ phase[h] = "newline" => records[h] = lines /\ tail = writing[h]

OwnPath == OneSink /\ FileContiguous /\ \A h \in Handle : SinkContiguous(h)

ContigInv == SinkInv /\ records \in [Handle -> Seq(Line)] /\ (~shared => OwnPath)
=============================================================================
