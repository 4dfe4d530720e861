----------------------------- MODULE Connection -----------------------------
(***************************************************************************)
(* One server-driven connection of src/serverdriven: the Session that      *)
(* steps on client events under the capability gate (driver.rs, gate), the *)
(* Connection that numbers, buffers and pushes the frames (connection.rs), *)
(* a link that drops with frames in flight, and the thin client at the     *)
(* other end, which applies each frame newer than the last it applied and  *)
(* reconnects with that sequence.                                          *)
(*                                                                         *)
(* An event for another connection, and an accepted step without ops,      *)
(* change nothing: they are stuttering steps.                              *)
(***************************************************************************)
EXTENDS Naturals, Sequences, SequencesExt, FiniteSets

CONSTANTS
  Tree, Seed,          \* the trees a session can hold, and its first
  Op,                  \* the decoded tree-ops
  NoTree,              \* what Apply yields for an op that is refused
  Apply(_, _),         \* ops::apply, as a partial function of a tree and an op
  Node, Event,         \* the ids and event names a client may send
  Has(_, _),           \* get_node finds the id in the tree
  Legitimate(_, _, _), \* legitimate_event, on the kind the node has in the tree
  Answers,             \* what the host handler may answer: op lists, or Denied
  Denied,              \* the handler's own refusal
  Needs(_),            \* the capabilities collect_op_missing finds in an op
  StateNeeds(_),       \* those of the mounts in the state blocks an op installs
  Mounted(_),          \* those of all mounts audit_mounts finds in a tree
  Grants,              \* the capabilities the host granted
  BufferCap,           \* replay buffer capacity, in frames
  RejectCap,           \* reject trail capacity
  MaxFrames,           \* bound: frames pushed
  MaxRejects,          \* bound: rejected steps
  MaxDrops,            \* bound: transport drops
  MaxWire              \* bound: frames in flight

ASSUME ConnectionAssumption ==
  /\ Seed \in Tree /\ NoTree \notin Tree
  /\ \A a \in Answers : a = Denied \/ a \in Seq(Op)
  /\ BufferCap \in Nat \ {0}
  /\ RejectCap \in Nat \ {0}
  /\ {MaxFrames, MaxRejects, MaxDrops, MaxWire} \subseteq Nat

(* An op makes a tree of a tree, and a mount is new in it only where the op  *)
(* brings it: in the node or kind of an InsertChild, ReplaceRoot or EditNode, *)
(* which Needs is taken from, or in the state block of an UpdateState, which  *)
(* it is not; a Batch brings what its ops bring.  A MoveNode may take a mount *)
(* from a state block to the children of a layout: audit_mounts walks both.   *)
ASSUME ApplyAssumption ==
  \A t \in Tree, o \in Op :
    Apply(t, o) # NoTree =>
      /\ Apply(t, o) \in Tree
      /\ Mounted(Apply(t, o)) \subseteq Mounted(t) \cup Needs(o) \cup StateNeeds(o)

VARIABLES
  \* the server
  tree,             \* Session.tree
  seq,              \* the sequence of the last frame
  buffer,           \* the frames retained for replay, oldest first
  rejects,          \* the retained reject trail, oldest first
  rejectsDropped,   \* rejects evicted from it
  \* the transport
  link,             \* "up" or "down"
  wire,             \* frames pushed and not yet delivered
  drops,            \* how often it dropped
  \* the client
  applied,          \* the sequence of the last frame it applied
  view,             \* the tree it shows
  \* history, for the properties only
  history,          \* history[n] is the server tree after frame n
  refusals,         \* the reason of every rejected step
  unvetted,         \* what the state blocks of the accepted ops brought in
  behind            \* the client once reconnected from behind the window

serverVars == <<tree, seq, buffer, rejects, rejectsDropped, history, refusals,
                unvetted>>
clientVars == <<applied, view>>
vars == <<tree, seq, buffer, rejects, rejectsDropped, link, wire, drops, applied,
          view, history, refusals, unvetted, behind>>

Frame == [seq : Nat, ops : Seq(Op)]

Reason == {"UnknownNode", "IllegitimateEvent", "DispatchDenied", "CapabilityDenied"}

TypeOK ==
  /\ tree \in Tree
  /\ seq \in Nat
  /\ buffer \in Seq(Frame) /\ Len(buffer) <= BufferCap
  /\ rejects \in Seq(Reason) /\ Len(rejects) <= RejectCap
  /\ rejectsDropped \in Nat
  /\ link \in {"up", "down"}
  /\ wire \in Seq(Frame)
  /\ drops \in Nat
  /\ applied \in Nat
  /\ view \in Tree \cup {NoTree}
  /\ history \in [0 .. seq -> Tree]
  /\ refusals \in Seq(Reason)
  /\ unvetted \subseteq UNION {StateNeeds(o) : o \in Op}
  /\ behind \in BOOLEAN

Init ==
  /\ tree = Seed
  /\ seq = 0
  /\ buffer = <<>>
  /\ rejects = <<>>
  /\ rejectsDropped = 0
  /\ link = "up"
  /\ wire = <<>>
  /\ drops = 0
  /\ applied = 0
  /\ view = Seed
  /\ history = [n \in 0 .. 0 |-> Seed]
  /\ refusals = <<>>
  /\ unvetted = {}
  /\ behind = FALSE

-----------------------------------------------------------------------------
(***************************************************************************)
(* Session::step                                                           *)
(***************************************************************************)
(* The ops of one step, in order, on a clone of the tree: all or nothing. *)
ApplyAll(t, ops) ==
  FoldLeft(LAMBDA acc, o : IF acc = NoTree THEN NoTree ELSE Apply(acc, o), t, ops)

(* Mutated form: only the first op of a step is vetted. *)
OpGateAllowsFirst(ops) == ops = <<>> \/ Needs(ops[1]) \subseteq Grants

(* op_gate_decision over every op of the step. *)
OpGateAllows(ops) == \A i \in 1 .. Len(ops) : Needs(ops[i]) \subseteq Grants

(* The checks of step, in its order, and the reason of the first that fails. *)
Verdict(n, e, answer) ==
  CASE ~Has(tree, n) -> "UnknownNode"
    [] Has(tree, n) /\ ~Legitimate(tree, n, e) -> "IllegitimateEvent"
    [] OTHER ->
         CASE answer = Denied -> "DispatchDenied"
           [] answer # Denied /\ ~OpGateAllows(answer) -> "CapabilityDenied"
           [] OTHER ->
                IF ApplyAll(tree, answer) = NoTree THEN "DispatchDenied" ELSE "Accepted"

(***************************************************************************)
(* Connection::handle                                                      *)
(***************************************************************************)
(* Push, evicting the oldest at capacity. *)
PushBounded(s, x, cap) ==
  Append(IF Len(s) >= cap /\ s # <<>> THEN Tail(s) ELSE s, x)

(* Mutated form: at capacity the newest is evicted. *)
BufferFrameEvictsNewest(f) ==
  IF Len(buffer) >= BufferCap THEN Append(Front(buffer), f) ELSE Append(buffer, f)

BufferFrame(f) == PushBounded(buffer, f, BufferCap)

RecordReject(reason) ==
  /\ rejects' = PushBounded(rejects, reason, RejectCap)
  /\ rejectsDropped' = rejectsDropped + (IF Len(rejects) >= RejectCap THEN 1 ELSE 0)

(* A rejected step records its reason and changes nothing else. *)
HandleReject(n, e, answer) ==
  LET reason == Verdict(n, e, answer)
  IN  /\ reason # "Accepted"
      /\ Len(refusals) < MaxRejects
      /\ RecordReject(reason)
      /\ refusals' = Append(refusals, reason)
      /\ UNCHANGED <<tree, seq, buffer, link, wire, drops, applied, view, history, unvetted,
                     behind>>

(* An accepted step: the tree moves, the frame is numbered, retained and     *)
(* pushed, in that order; a push on a broken link fails after all of it.     *)
HandleFrame(n, e, ops) ==
  LET frame == [seq |-> seq + 1, ops |-> ops]
  IN  /\ Verdict(n, e, ops) = "Accepted" /\ ops # <<>>
      /\ seq < MaxFrames
      /\ tree' = ApplyAll(tree, ops)
      /\ history' = [k \in 0 .. seq + 1 |-> IF k <= seq THEN history[k] ELSE tree']
      /\ seq' = seq + 1
      /\ buffer' = BufferFrame(frame)
      /\ wire' = IF link = "up" THEN Append(wire, frame) ELSE wire
      /\ unvetted' = unvetted \cup UNION {StateNeeds(ops[i]) : i \in 1 .. Len(ops)}
      /\ UNCHANGED <<rejects, rejectsDropped, link, drops, applied, view, refusals, behind>>

Handle ==
  \E n \in Node, e \in Event, answer \in Answers :
    \/ HandleReject(n, e, answer)
    \/ answer # Denied /\ HandleFrame(n, e, answer)

(***************************************************************************)
(* Connection::resync                                                      *)
(***************************************************************************)
(* Mutated form: the frame the client has not applied is taken for applied. *)
NewerThanSkipsOne(last) ==
  LET kept == {i \in 1 .. Len(buffer) : buffer[i].seq > last + 1}
  IN  IF kept = {} THEN <<>>
      ELSE SubSeq(buffer, CHOOSE i \in kept : \A j \in kept : i <= j, Len(buffer))

(* The retained frames newer than last.  The buffer ascends, so the filter   *)
(* is the suffix that starts at the first of them.                           *)
NewerThan(last) ==
  LET kept == {i \in 1 .. Len(buffer) : buffer[i].seq > last}
  IN  IF kept = {} THEN <<>>
      ELSE SubSeq(buffer, CHOOSE i \in kept : \A j \in kept : i <= j, Len(buffer))

(* Every frame after last is retained. *)
InWindow(last) ==
  last >= seq \/ \E i \in 1 .. Len(buffer) : buffer[i].seq = last + 1

(* The client is back and its last applied sequence is replayed from.  A     *)
(* push that fails half way is a Drop after part of the replay is delivered. *)
Reconnect ==
  /\ link = "down"
  /\ link' = "up"
  /\ wire' = NewerThan(applied)
  /\ behind' = (behind \/ ~InWindow(applied))
  /\ UNCHANGED <<serverVars, drops, clientVars>>

(* A resync on a live link, for a sequence the client reported a while ago. *)
ResyncAgain(last) ==
  /\ link = "up"
  /\ last <= applied
  /\ Len(wire) + Len(buffer) <= MaxWire
  /\ wire' = wire \o NewerThan(last)
  /\ UNCHANGED <<serverVars, link, drops, clientVars, behind>>

-----------------------------------------------------------------------------
(***************************************************************************)
(* The transport and the thin client, outside this repository              *)
(***************************************************************************)
(* Frames arrive in the order they were pushed; an old one is discarded. *)
Deliver ==
  /\ link = "up" /\ wire # <<>>
  /\ wire' = Tail(wire)
  /\ IF Head(wire).seq > applied
     THEN /\ applied' = Head(wire).seq
          /\ view' = ApplyAll(view, Head(wire).ops)
     ELSE UNCHANGED clientVars
  /\ UNCHANGED <<serverVars, link, drops, behind>>

(* The link drops and what is in flight is lost. *)
Drop ==
  /\ link = "up" /\ drops < MaxDrops
  /\ link' = "down"
  /\ wire' = <<>>
  /\ drops' = drops + 1
  /\ UNCHANGED <<serverVars, clientVars, behind>>

Next ==
  \/ Handle
  \/ Reconnect
  \/ \E last \in 0 .. applied : ResyncAgain(last)
  \/ Deliver
  \/ Drop

Spec == Init /\ [][Next]_vars

(* A client that lost its link comes back, and a live link delivers; nothing *)
(* obliges a user to act.                                                    *)
FairSpec == Spec /\ WF_vars(Reconnect) /\ WF_vars(Deliver)

-----------------------------------------------------------------------------
(***************************************************************************)
(* Properties                                                              *)
(***************************************************************************)
(* "so a brief transport drop loses no state": as long as no reconnect came  *)
(* from behind the window, the client shows exactly the tree the server held *)
(* after the last frame it applied, through drops, failed pushes, replays    *)
(* that overlap what was in flight, and stale resyncs.                       *)
ClientIsHistory == ~behind => applied <= seq /\ view = history[applied]

(* A frame is what took the server from one tree of its history to the next. *)
IsFrameOf(f) ==
  /\ f.seq \in 1 .. seq
  /\ history[f.seq] = ApplyAll(history[f.seq - 1], f.ops)

(* The retained window replays: the buffer is a contiguous run of frames     *)
(* that ends at the newest, and applied to the tree before its oldest frame  *)
(* it rebuilds the server's.                                                 *)
BufferReplays ==
  /\ tree = history[seq]
  /\ Len(buffer) = (IF seq < BufferCap THEN seq ELSE BufferCap)
  /\ \A i \in 1 .. Len(buffer) :
       buffer[i].seq = seq - Len(buffer) + i /\ IsFrameOf(buffer[i])

(* The reject trail is honest: what is retained is the newest refusals, and  *)
(* rejects_dropped says how many came before, within the trail's capacity.   *)
RejectTrailIsTail ==
  /\ Len(rejects) <= RejectCap
  /\ rejectsDropped + Len(rejects) = Len(refusals)
  /\ rejects = SubSeq(refusals, rejectsDropped + 1, Len(refusals))

(* What may be mounted: what the session started with, which Session::new    *)
(* does not vet, what the host granted, and what came in state blocks.       *)
Accounted == Mounted(Seed) \cup Grants \cup unvetted

(* The gate lets nothing in but by the one op it does not look at: a mount   *)
(* that the host did not grant is in a tree of the server, or on the screen  *)
(* of its client, only if the session started with its capability or an      *)
(* UpdateState brought it in a state block.  That holds however the ops that *)
(* built the tree were spread over steps, of whatever frames the client was  *)
(* sent, and after it has come back from behind the window too.              *)
OnlyVettedMounted ==
  /\ TypeOK
  /\ \A n \in 0 .. seq : Mounted(history[n]) \subseteq Accounted
  /\ view # NoTree => Mounted(view) \subseteq Accounted

(* "every driven op is vetted before it can touch the tree" (driver.rs:141): *)
(* what the session did not start with was granted.  It fails, since         *)
(* collect_op_missing passes an UpdateState whatever its state block holds.  *)
EveryOpIsVetted == Mounted(tree) \subseteq Mounted(Seed) \cup Grants

(* When users fall silent the client ends at the server's tree.              *)
ClientCatchesUp == <>[](behind \/ (applied = seq /\ view = tree))

(* The whole, seen from the client: the frames are one series of trees it    *)
(* moves forward along, until it reconnects from behind the window.          *)
Promised == INSTANCE Feed WITH
  latest <- seq, versions <- history, reached <- applied, shown <- view, adrift <- behind

(* Drops, replays, stale resyncs and pushes that fail after the tree has     *)
(* moved are all invisible to the client: Connection::handle and ::resync    *)
(* implement the feed.                                                       *)
IsFeed == Promised!Spec

-----------------------------------------------------------------------------
(***************************************************************************)
(* The inductive invariant behind ClientIsHistory.                         *)
(***************************************************************************)
(* What is in flight carries the client to the newest frame without a gap:   *)
(* every frame is preceded by its predecessor, or by the client having it.   *)
WireReaches ==
  /\ \A i \in 1 .. Len(wire) :
       \/ wire[i].seq <= applied + 1
       \/ \E j \in 1 .. i - 1 : wire[i].seq <= wire[j].seq + 1
  /\ \/ applied = seq
     \/ \E i \in 1 .. Len(wire) : wire[i].seq = seq

FeedInv ==
  /\ seq \in Nat /\ applied \in Nat /\ applied <= seq
  /\ behind \in BOOLEAN
  /\ buffer \in Seq(Frame) /\ wire \in Seq(Frame)
  /\ BufferReplays
  /\ \A i \in 1 .. Len(wire) : IsFrameOf(wire[i])
  /\ ~behind => /\ view = history[applied]
                /\ link = "up" => WireReaches
=============================================================================
