# Fuaran: a verification project

TLA+ models of the Rust crate in this repository, the TLC runs that check them
on small instances, and proofs that TLAPS checks for every instance. The
reference is the code; comments and docs appear only where a run shows that the
code does something else than they say. Paths below are relative to `src/src/`
of the checkout.

## The system

Fuaran holds a user interface as a tree of data. The tree is decoded from JSON,
changed by tree-ops, resolved against a store of values and rendered. Nothing
in a tree is code. Around this sit several protocols, and those are what is
hard to get right and hard to test.

| Part | State it keeps | Operations | Hard behaviour | What makes it correct |
| --- | --- | --- | --- | --- |
| `edge/mod.rs` durable session | journal, checkpoint, activation token (in the store); stream, tree, sequence (in a host) | activate, apply_op, checkpoint, eviction | a host evicted between the durable write and the adoption; two activations at once; answers lost | the journal is one replayable history; the owner is exactly its journal; what was acknowledged stays |
| `opstream/` chain, replay, sink | records; a JSONL file and a copy of its records | append, open, verify_chain | torn lines, failed writes, a second process on the file | what was acknowledged is recovered; sequences are 1, 2, ... |
| `serverdriven/` session, connection, channel | tree, sequence, frame buffer, reject trail | handle, push, resync | drops with frames in flight, pushes that fail, stale resyncs, a full buffer | the client shows a tree of the server's history; the buffer replays |
| `gate/` and `driver.rs` | the granted capabilities | op_gate_decision | authority decided op by op, the tree built by many ops; ops the gate does not look into | a mount that was not granted comes in by no op the gate looks into |
| `serverdriven/emitter/` panel | sequence, retained frames and their bytes, last answer | send, handle_event, resync | a window bounded by bytes, refused writes, lost lines, stale requests | a client told Replayed has all it lacked; else it is told Gap |
| `bounded/` program loop | fixed tree, store, resolved tree, pending questions | handle_event | late, duplicate and forged answers, partial refusals, budgets | a continuation runs only for a question asked; gated slots stay |
| `ops/`, `ops/placement.rs` | none (a tree in, a tree out) | apply; place, move, nudge, duplicate, paste | limits and ids checked after the op, batches; the verbs decide before apply does | trees keep their ids apart and their size; the verbs permit what apply takes |
| `dag/merge.rs` | none | merge3_way | both sides change one node, insert one id, move | no change is dropped without a conflict; the sides can be exchanged |
| `diff/` | none | diff | a script whose steps meet nodes on their way | `apply(diff(a, b), a) = b` |
| `introspect/`, `validator/`, `limits.rs` | none | pure functions | | |
| `client/`, `ffi/` | one tree and its sources behind a handle | apply, set, project | ownership across the C ABI | |
| `core/transform.rs`, `core/unit.rs` | none (tables in, a table out) | eval_pipeline, typing, units, parameters | schemas decided apart from cells; nulls, NaN and three kinds of number; units across steps | cells fit their columns; the schema does not depend on rows; units and parameters mean the same early or late |
| `core/grid_edit.rs`, `wire/grid_edit.rs` | the table, a bounded undo list, a redo list | apply, undo, redo, delta | rows told by key while keys change; edits that cannot be undone | undo and redo put back what was there; the client holds the table |
| `wire/decode.rs`, `encode.rs`, `generated.rs` | none | decode, encode | several hosts of one document: what is elided, respelt or damaged on the way | meaning survives; a refusal names the damage; what was read can be written and read |
| `elicitation.rs`, `envelope.rs`, `teleport/`, `canonical/` | none | decode, encode, negotiate | order of refusals, numeric edges | round trip |
| `theme/` | registered elements, flags, subscribers | observe, subscribe | re-registration, cycles | a flag is emitted when it changes |
| `core/function.rs`, `core/schema.rs`, `render/` | none | search, compare, render | | |

How they interact: an edge session calls the store and holds an op stream
(chain) and a client session, whose tree it moves through the apply engine. A
server-driven connection owns a session, asks the gate about each op, applies
it, and hands frames to a channel. The panel emitter numbers frames and writes
them to a pipe, and its resync answers events that a client sends. The bounded
loop is called with events and calls the fold, the resolver and the host's
dispatch policy. A document passes through the codec of every host on its way;
its grids carry tables that pipelines make and that edits change, and the row
deltas of those edits go to the client. Nothing in the crate starts a thread; concurrency comes from
the hosts: several activations of one session, a store or a link that answers
late or never, two processes on a file, events that arrive late or twice.

## Modules

Each component is a module, with an `MC` module where its constants need
definitions for TLC and, where something is proved, a `Proofs` module that holds its theorems.
`SequenceFolds` holds what all the proofs use about folds. `DurableLog`, `Feed`,
`EditLog` and `Outlines` are abstract specifications that the detailed ones
implement.

### EdgeSession and DurableLog

`EdgeSession` models `edge/mod.rs` with the chain of `opstream/chain.rs`. The
variables `owner`, `journal`, `checkpoint` are `InMemoryDurableStore`'s;
`phase`, `token`, `stream`, `tree`, `position` belong to each host; `wire`
holds the writes sent and not yet acted on, so a store call is a request, the
store's step, and an answer. `Acquire`, `ReadJournal`, `ReadCheckpoint`,
`ReplayRecord` and `FinishActivation` are the stretches of `activate`, with any
other host's step in between; `ApplyOp`, `AdoptRecord` and the refusals are
`apply_op`; `Evict` may come at any point. SHA-256 is ideal: a digest is what
it commits to. `Decodable` is the set of trees that `decode_node` takes, which
is not all those that ops can build. Provenance is abstracted to the activation
that built the record, so two identical retries of one activation are one
element of `wire`.

`DurableLog` is what a caller is promised: a log of ops each of which applies,
and positions of it that have been confirmed. `IsDurableLog` in `EdgeSession`
instantiates it with the log read off the journal, the tree its ops build and
the acknowledged sequences.

### FileSink

`opstream/sink.rs`. The file is its newline-terminated lines and a tail;
`writeln!` on a `File` is two writes, hence `WriteLine` and `WriteNewline`,
with `WriteFails` and a death of the process at each cut. Several `Handle`s may
be open on the path, each with the copy of the records that `open` read.
Nothing in the code keeps a second process out, so `shared`, chosen once at the
start, says whether the path is used by several sinks at a time or by one after
another.

### Connection

`serverdriven/connection.rs`, `driver.rs`, `channel.rs`, `frame.rs` and the
decision of `gate/mod.rs`. `Handle` is `Connection::handle`: legitimacy, the
host's handler, the gate on each op, the all-or-nothing application, then a
frame numbered, buffered and pushed, or a reject in the trail. The link drops
with what is in flight (`Drop`), a push may fail after the state has moved, and
`Reconnect` and `ResyncAgain` re-push the buffer's frames newer than what the
client reported. `Deliver` is the client, which is outside the crate. Trees and
ops are constants. `Needs` is what `collect_op_missing` finds in an op,
`StateNeeds` what the state block of an `UpdateState` holds, which it passes,
and `Mounted` what `audit_mounts` finds in a tree, under children and in state
blocks alike. `unvetted` is history: what came in by state blocks.

### Panel

`serverdriven/emitter/mod.rs`. `NewFrame` numbers, `Retain` charges a frame's
bytes and evicts from the front while over budget, `Resync` replays the window
or answers Gap. Firmware, pipe and client are the environment: the pipe refuses
writes or loses lines, the client applies frames in order and takes a fresh
root at any time, the firmware answers Gap as the code's comment asks. The
budget is chosen once, at the start, from `Budgets`. `refused` is history: the
frames that the pipe did not take, which `WindowIsNewest` and
`ReplayCarriesWritten` except and `ReplayIsWhole` does not. The hash chain over
the frames is left out: it adds nothing to their order.

### Feed

What both protocols promise a client: one series of versions that is only added
to, and a client that moves forward along it, several at a time and never back,
and shows the version it has reached. `IsFeed` in `Connection` maps to it the
trees the server has had and the tree of the client, and gives the client up
(`adrift`) when it reconnects from behind the window; `IsFeed` in `Panel` maps
what a full replay of the frames emitted so far shows, and gives up on no
client. A transport's drops, resyncs and replays are then steps that change
nothing.

### BoundedProgram

`bounded/program.rs`, `validate.rs`, `actions.rs`, `witness.rs`, `budget.rs`
and the seeds of `render/seeds.rs`. An event is refused (`Refuse`), has nothing
to do (`Ignore`), runs a gesture (`RunGesture`) or an answer (`RunAnswer`);
together they are `handle_event`. Actions are flattened to the leaves a fold
reaches, because a chain's fold and its price both flatten it; a question has
its two continuations. A binding is a state slot with its reader's default.
`asked` and `answers` are history. The fold itself belongs to an external crate
and is modelled from the witness that this crate hands it.

### TreeOps, TreePlacement, TreeDiff, TreeMerge and Revisions

The first four are the functions of `ops/mod.rs`, `ops/placement.rs`,
`diff/mod.rs` and `dag/merge.rs`, one operator per Rust function or `TreeOp`. A
node keeps what they tell apart: its id; whether its kind has a children list
(`layout`), holds nodes the structural ops cannot address (`switch`) or none;
one value for the kind's other fields; two style fields, accessibility,
tooltip; and the alternatives of its state block, whose nodes walks visit after
the children. `Apply` is the op, then the size limits if the op can grow the
tree, then the ids it installed. A node is a tree, so these modules are
recursive, and that makes them modules for TLC only.

`Revisions` is a host's use of them: a base and two sides, `Edit` by an op that
apply takes, and `Join`, the merge, which becomes the new base when apply takes
it as `ReplaceRoot`. Its properties quantify over ops, targets and pairs of
trees at each state reached, so that what a function promises is tried on trees
that sequences of ops make, not on trees written for a test.

### Outlines and TreeEngine

`Outlines` is the same engine written without recursion, so that it can be
reasoned about. A tree is a function from places, the paths from the root, to
nodes; a node keeps its id, whether it has a children list, and how many
children it has in each slot (its kind's and its state block's). Each structural
op is then one `Regroup`: other subtrees in the place of one node's children. The
values of nodes are left out, and so are the codes of refusals. An op is the
sequence of its members, which for a `Batch` may pass through drafts that repeat
ids: `Find` is the first holder in document order, as the walks of `ops/mod.rs`
find it, and `apply`'s two guards look at the last draft only. What an op brings
in is any tree, of any size and with any ids.

`TreeEngine` puts the two engines side by side. `EngineAgrees` lays each outline
that ops make out as a tree of nodes, applies each op to it with `TreeOps`, a batch
written flat or with a batch in it, and asks for the refusal or the outline that
`Outlines` has.

### Cells, Columns, Tables and Pipeline

`core/transform.rs` with the units it consults, one operator per Rust function.
`Cells` has the cells, their two equalities and their order, and the operators
and functions of an expression; `Columns` typing, units, parameters
and the evaluation of an expression over rows; `Tables` the verbs, from filter
to pivot; `Pipeline` a table that `Take`s verb after verb and may be published
and read again (`Publish`) on the way. It carries three runs of the same steps:
over the rows, over no rows, and over the same quantities in other units, since
two of its properties compare them. Numbers are fractions, with NaN; a text is
a sequence of symbols, a date a symbol that `Civil` explains. Math of the host
(`exp`, `log`), the decimal rounding kernel and the algebra of unit strings are
external. These modules recurse over expressions and are for TLC only.

### WireForms to WireAuthor, and Relay

The codec of `wire/`. `generated.rs` is tables written as code, and here they
are tables: `WireTypes` has every record and union case with its members, and
what the manifest claims of them, `WireReads` how each member is read (required,
optional, aliased, defaulted), `WireWrites` when it is written.
`WireCompute` is the layer of tables, expressions and steps, whose codec has
its own rules. `WireDecode` and `WireEncode` interpret them: `Decode` of a text
at a type, with the hand-written readers as operators of their names, and the
text of a value. A text is JSON as a value (`WireForms`), keys without order. `WireAuthor` enumerates, for
every record and case, a plain value and each value that differs in one member.

`Relay` is a document on its way: it may be respelt by an alias or a lenient
form, or damaged in one member (`Rephrase`, `Damage`), and is
read and written by one host after another (`Receive`, `Send`).

### GridEdits and EditLog

`core/grid_edit.rs` and `wire/grid_edit.rs`. `Apply` is an edit that arrives:
the strict envelope, the op, its inverse into the undo list, the redo list
emptied, the delta sent; `Undo` and `Redo` are the history's own. The client
holds the rows by key and takes what a delta names. `follows` records whether
every table the client was shown had one key for each row, without which keys
name nothing. The deltas of undo and redo are those of the op they apply.
`eval_pipeline` is the constant `EvalPipeline` here, and the zeros are one
cell. `EditLog` is what a history promises: documents to go back to, documents
to go forward to. `IsEditLog` maps to it the tables that the kept ops would
make, so that it says of the ops what a user sees of them.

## Runs

`CHECK_DEADLOCK FALSE` stands in every configuration: a host may stop calling,
a client may stop sending, and the bounds end every behaviour.

| Run | Shows | Bounds |
| --- | --- | --- |
| `edge_session` | two hosts, definite store failures: the inductive invariant `SafetyInv`, by which the journal is a verified, replayable chain written by one activation at a time, and `RetryIsSafe`, that the owner is its journal and no retry is told it is corrupt | 3 ops, 3 activations, 3 writes in flight |
| `edge_session_ambiguous` | a silent store: the refinement of `DurableLog` holds, in which what was acknowledged stays, and every call and activation ends (`NoCallHangs`) | 2 ops, 2 activations, 2 writes in flight |
| `file_sink` | two sinks on a path, in turns or at once, with crashes and failed writes: a file that opens gives back all that was acknowledged; with the path to itself a sink holds 1, 2, ... | 3 records, 5 appends |
| `connection` | the inductive invariant `FeedInv`, by which the client shows the server's history and the window replays, and a client within it catches up; a mount that was not granted is in a tree of the server or on the client's screen only where an `UpdateState` brought it (`OnlyVettedMounted`); with its client it implements `Feed` | 2 retained of 3 frames, 2 drops, 3 rejects |
| `panel` | under budgets of 2, 4 and 5 units, with lost lines, refused writes and clients that ask early: the window is the newest written frames that fit, a replay carries all the written frames it stands for, and the client ends current; it implements `Feed` too, so the screen is always one that was emitted | 2 readings; 1 loss, 1 early request, 1 refusal |
| `bounded_program` | continuations run only for what was asked, gates and budget hold, readers show the store | 7 events |
| `revisions` | on the trees that ops and merges make: a merge can have its sides exchanged, agrees with a side merged with itself, and keeps each change it does not refuse; the placement verbs and apply agree; a diff that runs ends at its target | 6 ids, depth 3, 5 nodes; 2 edits of one side, 1 of the other |
| `revisions_diff` (violation) | the script of a diff is refused when a node moved to an earlier part of the tree (`DiffAlwaysReplays`) | |
| `outlines` | the structural ops, alone and in batches: a tree never repeats an id nor passes a limit, a draft repeats an id only on account of what was brought in (`DraftsAreAccounted`), and the engine that walks nested nodes as the code does agrees op by op (`EngineAgrees`) | 5 ids, depth 3, 5 nodes; 26 ops and all their pairs, batches of 5 that start with twins |
| `pipeline` | two verbs that follow each other, the rounding of a decimal column excepted (see below): cells fit their columns, the schema is known without rows, quantities are the same in other units, a parameter is the same bound early or late, every column is ordered, and verbs that compute one thing agree | 43 steps, 2 in a row; 3 tables of 3 or 4 rows |
| `relay` | every record and union case with each member varied, respelt or damaged, the null default of a Filter or Selection excepted (`NoHoleIsWritten`, below), past two hosts: meaning survives, a refusal names the damage, damage stays where it is, what was read can be written and read on, nothing unclaimed is written, and the first host's text is final | 1 edit, 2 hosts |
| `grid_edits` | edits, undos and redos in any order: the table stays well formed, the next undo and redo are never refused, the client holds the rows, and the whole implements `EditLog` | capacity 2, 3 rows, 25 edits |

Why the bounds are enough. Three activations let a third overtake a second that
overtook a first; three ops make a checkpoint that lies strictly inside the
journal. Two retained of three frames make the buffer evict, and two drops let
a resync race what an earlier one sent. The panel's budgets are one reading, a
root alone, and a root and a reading, which are the cases of the eviction loop.
Seven events hold an asking, its answer, the inner question, its answer, and
then a second round with a duplicate. Two edits of a side and one of the other
hold each pair of ops that meets in a merge and each pair that follows another
on one tree, and the limits are the base's own depth and one node more than it
has, so that they bite. Two properties are tried on part of the states only:
`PlacementAgrees` on the trees one side makes of the base, the first half of
`MergeIsFaithful` where the other side is the base. In
`outlines` the base is as deep as the limit and one node short
of it; batches bring in two containers of one id, fill one and copy it over the
other, so that a draft repeats ids nobody brought in and walks meet several
holders. Two verbs in a row make
every verb read what every other wrote, and the tables hold a null, a NaN, a
unit and each number kind. One edit of a document is enough for the codec,
which reads a member without looking at others but for those `AnswersFor`
names; the second host is the first to read what a host wrote. A history of
two is full after two edits, so every list is truncated, and three rows let an
append meet an edited key. The numeric bounds that the code itself has
(buffer, trail and history capacity) are constants of the models and range over all
values in the proofs.

Fairness. `NoCallHangs` assumes that a host goes on with an activation and with
an answer it has (`Progress`, which leaves out giving up), and that the store
serves each host's call: an executor polls a ready future, and a store answers
or fails. Nothing forces an activation, an op or an eviction. `ClientCatchesUp`
assumes that a client that is away reconnects and that an up link delivers; the
drops are bounded. `ClientEndsCurrent` assumes that the firmware emits what
changed, that a line not lost arrives, and that the client asks again; losses
and refusals are bounded. No fairness is put on a fault or on a choice of the
user.

## Proofs

Proved with TLAPS for all constants that satisfy the named assumptions:

- `EdgeSessionProofs`. `SafetyInvariant`: the conjunction `SafetyInv` is
  inductive. The run's invariants alone are not: that the journal stays a chain
  needs to know that every write in flight that the fence still admits
  (`WritesFit`), every activation half done (`ActivationFits`) and every live
  session's outstanding call (`CallsFit`) is built on a prefix of the journal,
  and that a token is held by one host (`TokensFence`). From it follow
  `TypeCorrect`, `ChainAlwaysVerifies`, `JournalAlwaysReplays`,
  `CheckpointAlwaysFolds`, `OwnerAlwaysOnItsPrefix`,
  `StaleSessionsShowHistory`, `OneWriterAtATime`, `AcknowledgedIsDurable`,
  `ActivationNeverBreaks` and the refinement `ImplementsDurableLog`. For a
  store that fails only definitely (`~AmbiguousStore`), `DefiniteInvariant`
  adds that the owner has no write in flight but its own, and gives
  `OwnerIsAlwaysItsJournal` and `RetryIsNeverCorrupt`, together
  `RetryIsAlwaysSafe`; without the hypothesis TLC refutes them (see below).
- `FileSinkProofs`. `AcknowledgedIsRecovered`, from `SinkInv`: while the file
  parses, every acknowledged record, and every record whose line is written, is
  one of its lines. `OpenedAlwaysContiguous`, from `ContigInv`: on a path used
  by one sink after another, the lines of a file that parses are numbered
  1, 2, ..., what follows the last newline has the next number, and the sink in
  use holds these lines or has lost a write that shows in the tail.
- `PanelProofs`. `PanelInvariant`: `PanelInv` is inductive. It says that
  the frames emitted are numbered, that each frame the pipe took is among the
  written ones and these ascend, that the window is the longest run of the
  newest written frames that fits the budget, and that the screen is what the
  frames up to the client's sequence show. `WindowAlwaysNewest` and
  `ScreenAlwaysHistory` are parts of it. `ReplayAlwaysCarriesWritten` is an
  action property: a frame within the window's reach that the pipe took is in
  the window (`WindowHoldsNewer`), so a request answered Replayed brings it.
  `PanelImplementsFeed`: whatever is lost, refused or asked for early, the client
  moves forward along the one series of screens. The cost of an op is any natural
  number.
- `ConnectionProofs`. `FeedInvariant`: `FeedInv` is inductive. Its core is
  `WireReaches`, what is in flight leads to the newest frame without a gap; a
  resync restores it because the buffer is contiguous and ends at the newest
  frame (`BufferReplays`). `ClientShowsHistory` and `WindowAlwaysReplays`
  follow, and `ImplementsFeed`: a frame handled is a `Publish`, since every tree
  the server has had stays what it was, a frame that reaches the client is a
  `Follow`, and a client that reconnects from behind the window is given up. `TrailAlwaysAddsUp`: `TrailInv`, that the retained rejects are the
  suffix of all refusals from `rejectsDropped` on, is inductive, since at
  capacity the push drops the first and counts it. `OnlyVettedEverMounted`: the
  gate looks at each op of a step by itself while each op applies to the tree
  the ones before it made, so the argument is an induction along the step, that
  every tree on the way has only mounts whose capabilities were there at the
  start, were granted or came in a state block. `GateInv` says the same of each
  frame retained or in flight, which makes it true of the client's screen, even
  of one that came back from behind the window and applies frames to a tree
  that they were not made for. It needs of Apply that a mount is new only where
  the op brings it (`ApplyAssumption`), and nothing of the tree the session
  starts with. That no state block brings a mount is not so, and not assumed:
  see `EveryOpIsVetted` below.
- `BoundedProgramProofs`. `AnswersNeedAskings`: per question, answers given
  plus one while it is pending never exceed the times it was asked.
  `ProgramInvariant`: `ProgramInv` is inductive, with `InnerBehindOuter`, that a
  question inside another's continuation is asked no more often than the other
  is answered. Its core follows the fold of a gesture or an answer leaf by
  leaf: a leaf makes a store of a store, adds at most one effect, asks no
  question but its own (`FoldType`, `FoldLength`) and leaves alone every slot
  that the policy or the host keeps (`FoldSpares`).
  `ReadersAlwaysShowTheStore` and `EffectsAlwaysAdmitted` follow.
  `TokenAssumption` says that a question stands in one place of the tree, as
  its token, made of its path, does.
- `GridEditsProofs`. First what an op does to a well-formed table.
  `EveryOpIsTakenBack`: each of the four reversible ops, if it applies, leaves a
  well-formed table; the inverse kept for it applies there, is reversible and
  puts back the names and columns. A `SetColumn` or `InsertColumn` that reaches
  an op is one that was decoded, which is what makes its types and lengths fit.
  Then the history. `HistoryAlwaysBounded`: the two lists together stay within
  the capacity; an undo moves an entry from one to the other and only the undo
  list is truncated. The next four share `TableInv`: the undo list, from its
  newest entry on, is a chain of ops, each of which applies to the table that
  the one before it left, and so is the redo list. An undo takes the first link
  of one chain, and by `EveryOpIsTakenBack` its inverse is a first link of the
  other. So `TableAlwaysWellFormed`, `GesturesNeverRefused` and the refinement
  `HistoryIsEditLog`. `ClientAlwaysCurrent` adds `ClientInv`, that while `follows`
  holds, rows have keys apart and the client is the table read by key; its one
  hard lemma is `DeltaBrings`, that a delta which names every row that changed,
  with its new cells, and the keys that went, takes one such reading to the
  next, and each op is shown to send such a delta.
- `OutlineProofs`. `OutlineAlwaysLegal`: for any ids, limits, starts and ops,
  batches of any length included, no tree that apply makes repeats an id or is
  over a limit, though what an op brings in is any tree. The invariant is
  inductive over ops, but inside an op it is not: the drafts of a batch repeat
  ids and exceed limits, and apply looks only at the last one and only for the
  ids that were brought in. So the argument is an induction along the batch.
  `DraftsAlwaysAccounted`: in each draft, two nodes have one id only if that id
  was brought in, or each is under a node of one id that was, the two apart from
  each other. It is kept by every member, and by a move or a reorder between
  twins, which copies whole subtrees, because the twins are such a pair
  (`RegroupAccounted`, `PickedGroup`). If the installed ids are then held once
  there is no such pair, and all ids are (`SoundIsUnique`). The limits: an op
  that is taken for one that cannot grow the tree has members that drop or
  reorder children, and as nothing was brought in, no draft repeats an id, so
  that each place of the new tree stands for one of the old, as deep
  (`PickedFits`, `DraftFits`).
- `SequenceFolds`. What `FoldLeft` computes, for every operator, base and
  sequence: nothing over the empty sequence, and over `Append(s, x)` one more
  step. Each fold of a model is an instance of it: the reading of a file and what
  it replays to, the bytes and the frames of a window, the ops of a step, the
  leaves of an action, the edits of a history.

Induction. The induction theorems of the library take an operator as a
parameter, which the provers cannot instantiate. `SequenceFolds` gets induction
from a fact without one, that `<` is well founded on the naturals, and states it
of sets: a set of naturals (`NatSetInduction`) or of sequences
(`SeqSetInduction`) closed under the next one is all of them. A claim P is then
proved of the set of those for which P holds. `RecursionExists` shows with it
that a recursion along a sequence has a function, which is what the definition
of a fold by `CHOOSE` needs.

Hypothesis on pipelines. `EvalPipeline` is a constant of `GridEdits`, so the
four theorems of `GridEditsProofs` about tables have `PipelinesAreSound` as a
hypothesis: the pipelines of the edits make well-formed tables of well-formed
tables, or are refused. It is false of a pipeline that repeats a column's name,
which a join and a window can (see the limits below): such an edit leaves a table
that is not well-formed, whatever the history does, and `MCGridEdits` has none.
`HistoryAlwaysBounded` and `EveryOpIsTakenBack` do not need it.

From outlines to the code's walks. The theorems of `OutlineProofs` are about
places; that `TreeOps`, which recurses over nodes, does the same is checked
(`EngineAgrees`) and not proved.

Proved and not run. `AckedSurvive`, `RejectTrailIsTail`, `ScreenIsHistory` and
`HistoryIsBounded` are in no configuration of their own: the first is a part of
`SafetyInv`, the third follows from `IsFeed`, and each is a theorem.

The named assumptions stand beside the constants they are about and TLC
evaluates each in the run of its module. Beyond the shape of a constant they
say: `ApplyAssumption`, above; `CostAssumption`, a frame's
length is a natural number; `ActionAssumption` and `TokenAssumption`, actions are
lists of leaves and a question has one place; `TablesAssumption`, a grid starts
from a table with a schema entry for each column, names apart and columns of one
length, which excludes the repeated name below;
`SeedsAssumption` of `Outlines`, a host starts from a legal tree, without which
an op that installs nothing is let through (`ops/mod.rs:1897` says so), and
`PayloadAssumption`, what arrives is a tree;
`EditsAssumption`, an edit has the members of its kind and names the grid's key
field or none.

Only model-checked: everything temporal beyond safety (`NoCallHangs`,
`ClientCatchesUp`, `ClientEndsCurrent`), which rests on fairness; and all of
`TreeEngine`, `Revisions`, `Pipeline` and `Relay`, whose operators are `RECURSIVE` over a
tree, an expression or a document, which leaves a module without the solver that
the proofs need.

## What the code does otherwise than it says

The violation run is listed under `findings` in `PROJECT.json` with its place in
the code: the script of a diff can be refused (`revisions_diff`).

Eight more disagreements were found the same way. Each has its definition in the
modules, and a configuration with that definition as its one property finds it
violated:

- `EdgeSession!OwnerIsItsJournal` where `AmbiguousStore = TRUE`. A store that
  could not answer may have journaled the record; the session is then one
  behind its journal and its retry is refused as corrupt. `edge/mod.rs:101` and
  `:182` say that a retry is safe and that the session "is still exactly its
  journal".
- `FileSink!ReopenRecovers`. After one torn line no open succeeds, acknowledged
  records included, and a later append extends that line
  (`opstream/sink.rs:140`); `:108` says that reopening "recovers the full
  chain".
- `Connection!EveryOpIsVetted`. The gate does not look into an `UpdateState`
  (`serverdriven/driver.rs:225`), whose state block may hold a mount
  (`ops/mod.rs:1504`). `audit_mounts` counts it (`gate/mod.rs:119`), and a
  `MoveNode`, which the gate passes too, finds it there and takes it among the
  children of a layout (`ops/mod.rs:1616`). `driver.rs:141` says that "every
  driven op is vetted before it can touch the tree", and `:179` that any node an
  op introduces is.
- `Panel!ReplayIsWhole`. A frame is numbered before the pipe is tried
  (`serverdriven/emitter/mod.rs:367`), so a refused write leaves a hole in the
  window, and a client before it is told Replayed; `:509` says that Gap is for a
  client behind the window.
- `BoundedProgram!SeedsHold`. `handle_event` resolves the tree against the store
  alone (`bounded/program.rs:349`), not over the values the tree declares as
  `reprice` does (`:175`): the first admitted event takes them away.
- `Pipeline!CellsFitTheirColumns` with a step that rounds a decimal column
  holding a whole amount as an int. The cell becomes a float
  (`core/transform.rs:942`) in a column typed decimal (`:1353`).
- `Relay!NoHoleIsWritten` where `NullDefaults = TRUE`. A Filter or Selection
  binding in an optional-string slot keeps a null `defaultValue`
  (`wire/decode.rs:1949`), and the writer puts nothing after its key, so that the
  text is no JSON; `wire/encode.rs:115` says of that case "unreachable".
- `Relay!SnapshotIsCarried` where `SeedAliases = TRUE`. The rows of a live State
  source under `initialValue` or `default` are in its binding and not in its
  first snapshot, which looks at `defaultValue` only (`wire/decode.rs:2157`).

Smaller ones, met while modelling and stated here only:

- Undoing a RemoveColumn, or a SetColumn that changed a column's type, restores
  the column without its schema metadata (`core/grid_edit.rs:262`), so
  `IsEditLog` compares names and columns.
- A schema with a name twice can be decoded; RemoveColumn drops both columns
  and its undo restores one. The model starts from tables without.
- A SetCell that gives a row the key of another row is told as that key added,
  and the client then holds one row for two; `ClientIsCurrent` asks for one key
  for each row (`follows`).
- `first_unbound_param` does not look at the `$param` of a rounding scale
  (`wire/decode.rs:1031`), and the comment at `:2321` gives another order of
  checks than the code's.
- A columnar `defaultValue` of a State source seeds its snapshot and cannot be
  read in the slot it stands in, so that writing the document drops it.

Other limits of the code are kept as hypotheses of a property instead:

- Two sinks open on one path do not see each other's sequences
  (`opstream/sink.rs:131`), so `OpenedIsContiguous` is stated for a path that
  is not `shared`.
- A question's token is the same each time it is asked
  (`bounded/actions.rs:323`), so an old answer cannot be told from a new one,
  and `OneAnswerPerAsking` counts answers instead of matching them.
- apply checks the depth and the number of nodes, decode_node also bytes and
  the depth of the JSON, so ops can build a tree whose checkpoint no later
  activation can read (`edge/mod.rs:262`); `EdgeSession` keeps `Decodable`
  apart from `Tree` for it, and `NoCallHangs` counts such an activation as one
  that fails.
- A merge does not look at the tree it makes (`dag/merge.rs:704`). A node both
  sides moved, to different parents, is in it twice, and `ReplaceRoot` then
  refuses it; that is why `Join` has `r.ok`, and `OutlineIsLegal` is about what
  apply installs. An edit of a node that the other side deleted goes with
  it, and a child inserted where the other side made the parent a leaf is lost,
  both without a conflict; `MergeIsFaithful` speaks of the nodes all three
  trees hold in one place.
- Merged nodes have no tooltip, visible or fallback (`mk_node`,
  `dag/merge.rs:336`), so `MergeIsFaithful` compares trees without tooltips.
- The placement verbs do not look at the limits, so an op they emit may be
  refused as `LimitExceeded`, and that alone.
- A window's alias and a join's `_right` may repeat a column's name, and
  publishing then loses the second (`core/transform.rs:2543`); the steps of the
  run take fresh names. A pivot on instants spelt two ways counts them as two.
- The codec is lenient on purpose in places where meaning is dropped, and
  `Relay` takes these as what the author meant: a form field that spells out
  its automatic State binding loses the declaration in it; a Select with
  `multiple` drops `value`; a grid layout without `cols` is automatic; empty
  `params` and `dependsOn` are absent; a null cell of a row has no key; an
  untyped array or object in a static slot is written as a sentinel.

## Not modelled

Canonical JSON, teleport, rendering and the validator are functions of their
input without state; they are abstracted by the constants above (`Decodable`,
`Apply`, `Needs`) or left out. Of the codec, the limits on depth, size and
expression nodes, the order of keys and keys written twice are left out, as is
`wire/dialect.rs` with `idl_codegen.rs`, from which `generated.rs` is made: what
is made is what runs. Of the data layer, floats have no infinities and no
rounding. In the edge session the non-durable slots (`set_state`, filters, query results) are left
out. In the bounded loop the host's effect policy decides about reporting only,
and bindings other than `State` (transforms, queries, i18n) are left out, as is
visibility, which is decided at render: an event for a node that is not shown
is admitted (`bounded/validate.rs:296`). In the trees the paths that UpdateProp
takes into a kind, and the refusals that depend on them, are left out. A panel
that restarts numbers its frames from 1 again, and a client that keeps its old
`lastSeq` is told Current (`serverdriven/emitter/mod.rs:588`); in `Panel` a
restart is a new connection. A record of `dag/record.rs` is a codec without
state.

## Plan

Modules done, in order: `DurableLog`, `EdgeSession`, `FileSink`, `Connection`,
`Panel`, `BoundedProgram`, `TreeOps` with `TreePlacement`, `TreeDiff`,
`TreeMerge` and `Revisions`; then `Pipeline` and the modules under it, the wire
modules with `Relay`, and `GridEdits` with `EditLog`; then `Feed`, `Outlines` and
`TreeEngine`. Next:

1. `Elicitation`: the order of refusals, the answer's contract and the timeout;
   `Envelope` negotiation.
2. `ThemeObserver`: registration, flags and subscribers, and the walk over
   registered parents.
3. A composition of `EdgeSession` with `FileSink` as its store.
4. `Pipeline`'s `eval_pipeline` in place of the constant of `GridEdits`.
5. `Apply` of `TreeOps` in place of the abstract one in `MCConnection` and
   `MCEdgeSession`, and the client session of `client/mod.rs` over it.

Theorems to come: the laws of `TreeMerge` over outlines; `EdgeSession` over `FileSink`; that the
pipeline of `Pipeline` is sound in the sense of `PipelinesAreSound` when its
steps take fresh names; that a panel whose pipe refuses nothing replays without
a hole.
