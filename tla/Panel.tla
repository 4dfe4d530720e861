-------------------------------- MODULE Panel -------------------------------
(***************************************************************************)
(* The device side of a panel, src/serverdriven/emitter/mod.rs: the        *)
(* Emitter that numbers the frames it writes, the PipeChannel that writes  *)
(* each as a line and retains it within a budget of bytes, and the resync  *)
(* that answers a client with a replay, or with Gap.                       *)
(*                                                                         *)
(* Outside the repository are the firmware, which emits a reading when it  *)
(* changes and answers Gap with a fresh root and its current readings (as  *)
(* Resync::Gap asks of it), the pipe, which loses lines, and the client,   *)
(* which applies frames in sequence and takes a fresh root at any time.    *)
(*                                                                         *)
(* A refused write (EmitError) and an event no handler is registered for   *)
(* change nothing: they are stuttering steps.  The hash chain is in the    *)
(* frames' order alone.                                                    *)
(***************************************************************************)
EXTENDS Naturals, Sequences, SequencesExt, FiniteSets

CONSTANTS
  Entry,        \* the image's tables: readings, properties, fragments
  Value,        \* the values their declared kinds admit
  Unset,        \* what the compiled panel itself shows
  Root,         \* the ReplaceRoot of the compiled panel
  Cost(_),      \* retained_cost, by op
  Budgets,      \* the replay budgets a device may be built with
  MaxWrites,    \* bound: readings that change
  MaxLosses,    \* bound: lines and events lost on the way
  MaxEarly,     \* bound: events sent while lines are under way
  MaxFaults     \* bound: writes the pipe refuses

ASSUME PanelAssumption ==
  /\ Root \notin Entry /\ Unset \notin Value
  /\ Budgets \subseteq Nat
  /\ {MaxWrites, MaxLosses, MaxEarly, MaxFaults} \subseteq Nat

VARIABLES
  \* the device
  seq,        \* Emitter::seq, the last frame's sequence
  device,     \* what each entry reads now
  pending,    \* what the firmware has yet to emit
  replay,     \* the retained frames, oldest first
  retained,   \* the bytes charged for them
  budget,     \* replay_budget
  answer,     \* what the last resync answered
  \* the pipe
  wire,       \* lines under way to the client
  request,    \* the lastSeq of an event under way to the device, or none
  \* the client
  applied,    \* the sequence of the last frame it applied
  screen,     \* what it shows
  \* history and bounds
  emitted,    \* every frame the emitter made
  refused,    \* the sequences of those the pipe refused
  writes, losses, early, faults

device_vars == <<seq, device, pending, replay, retained, budget, answer>>
client_vars == <<applied, screen>>
bounds == <<writes, losses, early, faults>>
vars == <<device_vars, wire, request, client_vars, emitted, refused, bounds>>

Screen == [Entry -> Value \cup {Unset}]
Op == {Root} \cup [entry : Entry, value : Value \cup {Unset}]
Frame == [seq : Nat, op : Op]
NoRequest == [none |-> TRUE]

ASSUME CostAssumption == \A op \in Op : Cost(op) \in Nat

TypeOK ==
  /\ seq \in Nat
  /\ device \in Screen
  /\ pending \subseteq Entry \cup {Root}
  /\ replay \in Seq(Frame)
  /\ retained \in 0 .. budget
  /\ budget \in Budgets
  /\ answer \in {"none", "current", "replayed", "gap", "failed"}
  /\ wire \in Seq(Frame)
  /\ request = NoRequest \/ request.last \in Nat
  /\ applied \in Nat
  /\ screen \in Screen
  /\ emitted \in Seq(Frame)
  /\ refused \subseteq Nat

Init ==
  /\ seq = 0
  /\ device = [e \in Entry |-> Unset]
  /\ pending = {Root}
  /\ replay = <<>>
  /\ retained = 0
  /\ budget \in Budgets
  /\ answer = "none"
  /\ wire = <<>>
  /\ request = NoRequest
  /\ applied = 0
  /\ screen = [e \in Entry |-> Unset]
  /\ emitted = <<>>
  /\ refused = {}
  /\ writes = 0 /\ losses = 0 /\ early = 0 /\ faults = 0

-----------------------------------------------------------------------------
(* What a screen becomes under an op: a root starts over, a write sets one. *)
Shows(shown, op) ==
  IF op = Root THEN [e \in Entry |-> Unset] ELSE [shown EXCEPT ![op.entry] = op.value]

Bytes(frames) == FoldLeft(LAMBDA sum, f : sum + Cost(f.op), 0, frames)

(***************************************************************************)
(* PipeChannel::push, once the line is written                             *)
(***************************************************************************)
(* How many of the oldest frames go for what is left to be within the budget. *)
Evicted(kept, total) ==
  LET enough == {n \in 0 .. Len(kept) : total - Bytes(SubSeq(kept, 1, n)) <= budget}
  IN  CHOOSE n \in enough : \A m \in enough : n <= m

RetainWithin(f) ==
  LET kept == Append(replay, f)
      total == retained + Cost(f.op)
      n == Evicted(kept, total)
  IN  /\ replay' = SubSeq(kept, n + 1, Len(kept))
      /\ retained' = total - Bytes(SubSeq(kept, 1, n))

(* Mutated form: a frame over the budget is passed by, the others stay. *)
RetainSkipsOversized(f) ==
  IF Cost(f.op) > budget THEN UNCHANGED <<replay, retained>> ELSE RetainWithin(f)

(* A frame larger than the whole budget empties the window. *)
Retain(f) ==
  IF Cost(f.op) > budget THEN replay' = <<>> /\ retained' = 0 ELSE RetainWithin(f)

(***************************************************************************)
(* Emitter::frame and the push of what it made                             *)
(***************************************************************************)
(* Mutated form: the chain's own zero-based sequence is sent. *)
NewFrameZeroBased(op) == [seq |-> seq, op |-> op]

NewFrame(op) == [seq |-> seq + 1, op |-> op]

(* The emitter has numbered the frame before the pipe is tried. *)
Emit(op) ==
  /\ seq' = seq + 1
  /\ emitted' = Append(emitted, NewFrame(op))

PushWritten(op) ==
  /\ Emit(op)
  /\ wire' = Append(wire, NewFrame(op))
  /\ Retain(NewFrame(op))
  /\ UNCHANGED <<refused, faults>>

(* write_frame fails and push returns before it retains anything. *)
PushRefused(op) ==
  /\ faults < MaxFaults
  /\ Emit(op)
  /\ refused' = refused \cup {seq + 1}
  /\ faults' = faults + 1
  /\ UNCHANGED <<wire, replay, retained>>

(* A reading changes and is emitted; one that could not be written is        *)
(* emitted again.                                                            *)
Write(e, v) ==
  LET op == [entry |-> e, value |-> v]
  IN  /\ writes < MaxWrites
      /\ Root \notin pending
      /\ device[e] # v
      /\ device' = [device EXCEPT ![e] = v]
      /\ \/ PushWritten(op) /\ pending' = pending \ {e}
         \/ PushRefused(op) /\ pending' = pending \cup {e}
      /\ writes' = writes + 1
      /\ UNCHANGED <<budget, answer, request, client_vars, losses, early>>

(* The firmware works off what it has to emit, the root before all else. *)
EmitPending(x) ==
  LET op == IF x = Root THEN Root ELSE [entry |-> x, value |-> device[x]]
  IN  /\ x \in pending
      /\ x = Root \/ Root \notin pending
      /\ \/ PushWritten(op) /\ pending' = pending \ {x}
         \/ PushRefused(op) /\ UNCHANGED pending
      /\ UNCHANGED <<device, budget, answer, request, client_vars, writes, losses, early>>

(***************************************************************************)
(* PipeChannel::resync                                                     *)
(***************************************************************************)
After(last) ==
  FoldLeft(LAMBDA newer, f : IF f.seq > last THEN Append(newer, f) ELSE newer, <<>>, replay)

(* Mutated form: the frame right after the client's counts as retained. *)
InWindowByOne(last) == replay # <<>> /\ Head(replay).seq <= last + 2

InWindow(last) == replay # <<>> /\ Head(replay).seq <= last + 1

ResyncCurrent(last) ==
  /\ last >= seq
  /\ answer' = "current"
  /\ UNCHANGED <<wire, pending, faults>>

ResyncReplayed(last) ==
  /\ last < seq /\ InWindow(last)
  /\ wire' = wire \o After(last)
  /\ answer' = "replayed"
  /\ UNCHANGED <<pending, faults>>

(* The pipe refuses a line half way: what was written stays written. *)
ResyncFailed(last) ==
  /\ last < seq /\ InWindow(last)
  /\ faults < MaxFaults
  /\ \E n \in 0 .. Len(After(last)) - 1 : wire' = wire \o SubSeq(After(last), 1, n)
  /\ answer' = "failed"
  /\ faults' = faults + 1
  /\ UNCHANGED pending

(* Nothing is written, and the firmware answers with a fresh root and its    *)
(* current readings.                                                         *)
ResyncGap(last) ==
  /\ last < seq /\ ~InWindow(last)
  /\ pending' = {Root} \cup {e \in Entry : device[e] # Unset}
  /\ answer' = "gap"
  /\ UNCHANGED <<wire, faults>>

(* An admitted event carries the client's lastSeq; the firmware finishes     *)
(* what it is emitting before it reads the next event.                       *)
Resync ==
  /\ request # NoRequest /\ pending = {}
  /\ request' = NoRequest
  /\ \/ ResyncCurrent(request.last)
     \/ ResyncReplayed(request.last)
     \/ ResyncFailed(request.last)
     \/ ResyncGap(request.last)
  /\ UNCHANGED <<seq, device, replay, retained, budget, client_vars, emitted, refused, writes, losses, early>>

-----------------------------------------------------------------------------
(***************************************************************************)
(* The client and the pipe, outside this repository                        *)
(***************************************************************************)
Receive ==
  /\ wire # <<>>
  /\ wire' = Tail(wire)
  /\ LET f == Head(wire)
     IN  IF f.seq = applied + 1 \/ (f.seq > applied /\ f.op = Root)
         THEN applied' = f.seq /\ screen' = Shows(screen, f.op)
         ELSE UNCHANGED client_vars
  /\ UNCHANGED <<device_vars, request, emitted, refused, bounds>>

(* The client sends an event, with the sequence it has applied: while lines  *)
(* are under way, or after a silence.                                        *)
Ask ==
  /\ request = NoRequest
  /\ request' = [last |-> applied]
  /\ IF wire = <<>> /\ pending = {}
     THEN applied < seq /\ UNCHANGED early
     ELSE early < MaxEarly /\ early' = early + 1
  /\ UNCHANGED <<device_vars, wire, client_vars, emitted, refused, writes, losses, faults>>

(* A line, or an event, is garbled and dropped. *)
Lose ==
  /\ losses < MaxLosses
  /\ losses' = losses + 1
  /\ \/ wire # <<>> /\ wire' = Tail(wire) /\ UNCHANGED request
     \/ request # NoRequest /\ request' = NoRequest /\ UNCHANGED wire
  /\ UNCHANGED <<device_vars, client_vars, emitted, refused, writes, early, faults>>

Next ==
  \/ \E e \in Entry, v \in Value : Write(e, v)
  \/ \E x \in Entry \cup {Root} : EmitPending(x)
  \/ Resync
  \/ Receive
  \/ Ask
  \/ Lose

Spec == Init /\ [][Next]_vars

(* The firmware's loop turns, lines arrive, and a client that hears nothing  *)
(* asks again.                                                               *)
FairSpec ==
  /\ Spec
  /\ WF_vars(\E x \in Entry \cup {Root} : EmitPending(x))
  /\ WF_vars(Resync)
  /\ WF_vars(Receive)
  /\ WF_vars(Ask)

-----------------------------------------------------------------------------
(***************************************************************************)
(* Properties                                                              *)
(***************************************************************************)
(* What the first n frames show. *)
ShownAfter(n) ==
  FoldLeft(LAMBDA shown, f : Shows(shown, f.op), [e \in Entry |-> Unset],
           SubSeq(emitted, 1, n))

(* Whatever is lost, replayed or refused by the pipe, the client shows what  *)
(* the frames up to its own sequence show.                                   *)
ScreenIsHistory == applied <= seq /\ screen = ShownAfter(applied)

(* The whole, seen from the client: one series of screens.  The panel gives  *)
(* up on no client: one it cannot carry forward is sent a fresh root.        *)
Promised == INSTANCE Feed WITH
  latest <- seq, versions <- [n \in 0 .. seq |-> ShownAfter(n)],
  reached <- applied, shown <- screen, adrift <- FALSE

(* Emitter::frame, PipeChannel::push and ::resync implement the feed: lines  *)
(* lost or sent twice, frames the pipe refused and a Gap are all invisible   *)
(* in what the client shows.                                                 *)
IsFeed == Promised!Spec

(* The frames the pipe took. *)
Taken(frames, gone) ==
  FoldLeft(LAMBDA taken, f : IF f.seq \in gone THEN taken ELSE Append(taken, f), <<>>, frames)

(* "retained for reconnect-replay until the retained op bytes pass           *)
(* replay_budget": of the frames the pipe took, the window is the longest    *)
(* run of newest ones that fits, and retained_bytes is what it costs, never  *)
(* more than the budget.                                                     *)
WindowIsNewest ==
  LET written == Taken(emitted, refused)
  IN  /\ TypeOK
      /\ retained = Bytes(replay)
      /\ \E n \in 0 .. Len(written) :
           /\ replay = SubSeq(written, n + 1, Len(written))
           /\ n > 0 => Bytes(SubSeq(written, n, Len(written))) > budget

Replays == request # NoRequest /\ request' = NoRequest /\ answer' = "replayed" /\ losses' = losses

SentAgain(n) == \E i \in 1 .. Len(wire') : wire'[i].seq = n

(* A client answered with a replay is sent every frame it lacks that the     *)
(* pipe once took; one that cannot be is told Gap (resync).                  *)
ReplayCarriesWritten ==
  [][Replays => \A n \in request.last + 1 .. seq : n \in refused \/ SentAgain(n)]_vars

(* What the docs of push and of Resync promise: a client answered with a     *)
(* replay is sent every frame it lacks.                                      *)
ReplayIsWhole ==
  [][Replays => \A n \in request.last + 1 .. seq : SentAgain(n)]_vars

(* When the readings settle and lines stop being lost, the client ends up    *)
(* showing what the device reads, through replay or through a fresh root,    *)
(* unless a frame was refused: the code has no way past that one.            *)
ClientEndsCurrent == <>[](refused # {} \/ (applied = seq /\ screen = device))
=============================================================================
