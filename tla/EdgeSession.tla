---------------------------- MODULE EdgeSession -----------------------------
(***************************************************************************)
(* One durable session of src/edge/mod.rs: the store that outlives every   *)
(* activation (DurableSessionStore, with the fence and the duplicate check *)
(* of InMemoryDurableStore), and the hosts that activate the session, run  *)
(* it, are evicted, and may still be running when a newer activation has   *)
(* taken over.                                                             *)
(*                                                                         *)
(* A call of a store method is a request and an answer, so that everything *)
(* a distributed runtime can do between the two is a step of its own: a    *)
(* host is evicted with its write in flight, another host activates, the   *)
(* answer is lost.  The reads of activate are steps too, so a newer        *)
(* activation may write between any two of them.                           *)
(***************************************************************************)
EXTENDS Naturals, Sequences, FiniteSets

CONSTANTS
  Host,            \* the places that can activate the session
  Op,              \* the decoded tree-ops
  Tree,            \* the trees a session can hold
  Seed,            \* the tree a session begins life with
  NoTree,          \* what Apply yields for an op that is refused
  Apply(_, _),     \* ops::apply, as a partial function of a tree and an op
  Decodable,       \* the trees whose canonical JSON decode_node accepts
  NoCheckpoint,    \* the store holds no snapshot
  NoRequest,       \* the session has no store call outstanding
  AmbiguousStore,  \* TRUE: a store that could not answer may have acted
  MaxOps,          \* bound: records in a journal
  MaxActivations,  \* bound: activations the store hands out
  MaxInFlight      \* bound: writes sent and not yet acted on

ASSUME TreeAssumption ==
  /\ Decodable \subseteq Tree
  /\ Seed \in Decodable
  /\ NoTree \notin Tree
  /\ \A t \in Tree, o \in Op : Apply(t, o) \in Tree \cup {NoTree}

ASSUME StoreAssumption ==
  /\ AmbiguousStore \in BOOLEAN
  /\ MaxOps \in Nat
  /\ MaxActivations \in Nat
  /\ MaxInFlight \in Nat

-----------------------------------------------------------------------------
(***************************************************************************)
(* The hash chain of src/opstream/chain.rs.  SHA-256 is taken as ideal: a  *)
(* hash IS what it commits to, the hash before it extended with the op,    *)
(* the sequence and the provenance of the new record.  The provenance      *)
(* (actor, timestamp, prompt id) is abstracted to the activation that      *)
(* built the record, which is what tells two attempts apart.               *)
(***************************************************************************)
Digest == Seq(Op \X Nat \X Nat)
Genesis == <<>>
ComputeHash(previous, o, sequence, by) == Append(previous, <<o, sequence, by>>)

Record ==
  [sequence : Nat, op : Op, by : Nat, previous : Digest, hash : Digest]

(* OpStream::head *)
ChainHead(records) ==
  IF records = <<>> THEN Genesis ELSE records[Len(records)].hash

(* The record apply_op builds against the head of the stream it holds. *)
NextRecord(stream, o, by) ==
  LET previous == ChainHead(stream)
      sequence == Len(stream) + 1
  IN  [sequence |-> sequence, op |-> o, by |-> by, previous |-> previous,
       hash |-> ComputeHash(previous, o, sequence, by)]

(* verify_chain: contiguous from 1, linked, and every hash recomputes. *)
VerifyChain(records) ==
  \A i \in 1 .. Len(records) :
    LET r == records[i]
    IN  /\ r.sequence = i
        /\ r.previous = (IF i = 1 THEN Genesis ELSE records[i - 1].hash)
        /\ r.hash = ComputeHash(r.previous, r.op, r.sequence, r.by)

Checkpoint == [through : Nat, tree : Tree]

AppendRequest == [kind : {"append"}, token : Nat, record : Record]
CheckpointRequest == [kind : {"checkpoint"}, token : Nat, checkpoint : Checkpoint]
Request == AppendRequest \cup CheckpointRequest

ASSUME SentinelAssumption == NoRequest \notin Request

-----------------------------------------------------------------------------
VARIABLES
  \* the store
  owner,        \* the newest activation token handed out
  journal,      \* the records held, in the order they landed
  checkpoint,   \* the newest snapshot, or NoCheckpoint
  wire,         \* writes that were sent and not yet acted on
  \* the hosts
  phase,        \* where each host is in its activation
  token,        \* the activation token each host holds
  stream,       \* the OpStream each host holds
  tree,         \* the tree each host's ClientSession holds
  position,     \* how far activate has replayed
  pending,      \* the write each host is waiting for
  answer,       \* the store's answer to it, once there is one
  last,         \* how the host's last call ended
  \* history, for the properties only
  built,        \* built[n + 1] is the tree the first n journaled ops build
  acked         \* the records whose apply_op was answered Ok

storeVars == <<owner, journal, checkpoint, wire>>
hostVars == <<phase, token, stream, tree, position, pending, answer, last>>
vars == <<owner, journal, checkpoint, wire, phase, token, stream, tree,
          position, pending, answer, last, built, acked>>

(* A host is idle, or in one of activate's three stretches, or its session *)
(* is live, or a store call of the live session is outstanding.            *)
Activating == {"acquired", "journal_read", "replaying"}
Running == {"live", "waiting"}
Phase == {"idle"} \cup Activating \cup Running

Outcome == {"none", "ok", "refused", "not_owner", "corrupt", "unavailable",
            "chain_error", "decode_error", "replay_error"}

TypeOK ==
  /\ owner \in Nat
  /\ journal \in Seq(Record)
  /\ checkpoint \in Checkpoint \cup {NoCheckpoint}
  /\ wire \subseteq Request
  /\ phase \in [Host -> Phase]
  /\ token \in [Host -> Nat]
  /\ stream \in [Host -> Seq(Record)]
  /\ tree \in [Host -> Tree]
  /\ position \in [Host -> Nat]
  /\ pending \in [Host -> Request \cup {NoRequest}]
  /\ answer \in [Host -> {"none", "ok", "not_owner", "corrupt"}]
  /\ last \in [Host -> Outcome]
  /\ built \in Seq(Tree \cup {NoTree})
  /\ acked \subseteq Record

Init ==
  /\ owner = 0
  /\ journal = <<>>
  /\ checkpoint = NoCheckpoint
  /\ wire = {}
  /\ phase = [h \in Host |-> "idle"]
  /\ token = [h \in Host |-> 0]
  /\ stream = [h \in Host |-> <<>>]
  /\ tree = [h \in Host |-> Seed]
  /\ position = [h \in Host |-> 0]
  /\ pending = [h \in Host |-> NoRequest]
  /\ answer = [h \in Host |-> "none"]
  /\ last = [h \in Host |-> "none"]
  /\ built = <<Seed>>
  /\ acked = {}

-----------------------------------------------------------------------------
(***************************************************************************)
(* EdgeSession::activate                                                   *)
(***************************************************************************)

(* The host's memory of the session is gone; `why` is what its caller saw. *)
Forget(h, why) ==
  /\ phase' = [phase EXCEPT ![h] = "idle"]
  /\ token' = [token EXCEPT ![h] = 0]
  /\ stream' = [stream EXCEPT ![h] = <<>>]
  /\ tree' = [tree EXCEPT ![h] = Seed]
  /\ position' = [position EXCEPT ![h] = 0]
  /\ pending' = [pending EXCEPT ![h] = NoRequest]
  /\ answer' = [answer EXCEPT ![h] = "none"]
  /\ last' = [last EXCEPT ![h] = why]

(* store.acquire: the token is taken first, and fences every older one. *)
Acquire(h) ==
  /\ phase[h] = "idle"
  /\ owner < MaxActivations
  /\ owner' = owner + 1
  /\ token' = [token EXCEPT ![h] = owner + 1]
  /\ phase' = [phase EXCEPT ![h] = "acquired"]
  /\ last' = [last EXCEPT ![h] = "none"]
  /\ UNCHANGED <<journal, checkpoint, wire, stream, tree, position, pending,
                 answer, built, acked>>

(* The store acted on an acquire whose answer never came back. *)
AcquireUnanswered(h) ==
  /\ AmbiguousStore
  /\ phase[h] = "idle"
  /\ owner < MaxActivations
  /\ owner' = owner + 1
  /\ last' = [last EXCEPT ![h] = "unavailable"]
  /\ UNCHANGED <<journal, checkpoint, wire, phase, token, stream, tree,
                 position, pending, answer, built, acked>>

(* store.journal, then verify_chain: an unverified history is refused. *)
ReadJournal(h) ==
  /\ phase[h] = "acquired"
  /\ IF VerifyChain(journal)
     THEN /\ phase' = [phase EXCEPT ![h] = "journal_read"]
          /\ stream' = [stream EXCEPT ![h] = journal]
          /\ UNCHANGED <<token, tree, position, pending, answer, last>>
     ELSE Forget(h, "chain_error")
  /\ UNCHANGED <<owner, journal, checkpoint, wire, built, acked>>

(* store.latest_checkpoint, and ClientSession::new on the base it chooses. *)
ReadCheckpoint(h) ==
  LET base == IF checkpoint = NoCheckpoint
              THEN [through |-> 0, tree |-> Seed]
              ELSE checkpoint
  IN  /\ phase[h] = "journal_read"
      /\ IF base.tree \in Decodable
         THEN /\ phase' = [phase EXCEPT ![h] = "replaying"]
              /\ tree' = [tree EXCEPT ![h] = base.tree]
              /\ position' = [position EXCEPT ![h] = base.through]
              /\ UNCHANGED <<token, stream, pending, answer, last>>
         ELSE Forget(h, "decode_error")
      /\ UNCHANGED <<owner, journal, checkpoint, wire, built, acked>>

(* One turn of the replay loop over the records past the checkpoint. *)
ReplayRecord(h) ==
  /\ phase[h] = "replaying"
  /\ position[h] < Len(stream[h])
  /\ LET next == Apply(tree[h], stream[h][position[h] + 1].op)
     IN  IF next # NoTree
         THEN /\ tree' = [tree EXCEPT ![h] = next]
              /\ position' = [position EXCEPT ![h] = @ + 1]
              /\ UNCHANGED <<phase, token, stream, pending, answer, last>>
         ELSE Forget(h, "replay_error")
  /\ UNCHANGED <<owner, journal, checkpoint, wire, built, acked>>

(* activate returns the session. *)
FinishActivation(h) ==
  /\ phase[h] = "replaying"
  /\ position[h] >= Len(stream[h])
  /\ phase' = [phase EXCEPT ![h] = "live"]
  /\ position' = [position EXCEPT ![h] = 0]
  /\ last' = [last EXCEPT ![h] = "ok"]
  /\ UNCHANGED <<owner, journal, checkpoint, wire, token, stream, tree,
                 pending, answer, built, acked>>

-----------------------------------------------------------------------------
(***************************************************************************)
(* EdgeSession::apply_op and EdgeSession::checkpoint, up to the store call *)
(***************************************************************************)
Send(h, q) ==
  /\ Cardinality(wire) < MaxInFlight
  /\ wire' = wire \cup {q}
  /\ pending' = [pending EXCEPT ![h] = q]
  /\ phase' = [phase EXCEPT ![h] = "waiting"]
  /\ last' = [last EXCEPT ![h] = "none"]

(* Steps 1 and 2 of apply_op: an op that does not apply journals nothing. *)
RefuseOp(h, o) ==
  /\ phase[h] = "live"
  /\ Apply(tree[h], o) = NoTree
  /\ last' = [last EXCEPT ![h] = "refused"]
  /\ UNCHANGED <<owner, journal, checkpoint, wire, phase, token, stream, tree,
                 position, pending, answer, built, acked>>

(* Step 3: the record is built against the current head and sent. *)
ApplyOp(h, o) ==
  /\ phase[h] = "live"
  /\ Len(stream[h]) < MaxOps
  /\ Apply(tree[h], o) # NoTree
  /\ Send(h, [kind |-> "append", token |-> token[h],
              record |-> NextRecord(stream[h], o, token[h])])
  /\ UNCHANGED <<owner, journal, checkpoint, token, stream, tree, position,
                 answer, built, acked>>

TakeCheckpoint(h) ==
  /\ phase[h] = "live"
  /\ Send(h, [kind |-> "checkpoint", token |-> token[h],
              checkpoint |-> [through |-> Len(stream[h]), tree |-> tree[h]]])
  /\ UNCHANGED <<owner, journal, checkpoint, token, stream, tree, position,
                 answer, built, acked>>

-----------------------------------------------------------------------------
(***************************************************************************)
(* The store acts on a write: the fence, the duplicate check, the effect   *)
(***************************************************************************)
(* Mutated form: no fence. *)
CheckOwnerDropped(q) == q.token <= owner

CheckOwner(q) == q.token = owner

(* Mutated form: no duplicate check. *)
AlreadyJournaledDropped(r) == r.sequence = 0

AlreadyJournaled(r) == \E i \in 1 .. Len(journal) : journal[i].sequence = r.sequence

(* The answer reaches whichever host is still waiting for this write. *)
Reply(q, status) ==
  /\ wire' = wire \ {q}
  /\ answer' = [h \in Host |-> IF pending[h] = q THEN status ELSE answer[h]]
  /\ UNCHANGED <<owner, phase, token, stream, tree, position, pending, last, acked>>

(* Mutated form: a fenced write is dropped without an answer. *)
RefuseNotOwnerSilently(q) ==
  /\ ~CheckOwner(q)
  /\ wire' = wire \ {q}
  /\ UNCHANGED <<owner, journal, checkpoint, hostVars, built, acked>>

RefuseNotOwner(q) ==
  /\ ~CheckOwner(q)
  /\ Reply(q, "not_owner")
  /\ UNCHANGED <<journal, checkpoint, built>>

RefuseDuplicate(q) ==
  /\ CheckOwner(q)
  /\ q.kind = "append"
  /\ AlreadyJournaled(q.record)
  /\ Reply(q, "corrupt")
  /\ UNCHANGED <<journal, checkpoint, built>>

AppendRecord(q) ==
  /\ CheckOwner(q)
  /\ q.kind = "append"
  /\ ~AlreadyJournaled(q.record)
  /\ journal' = Append(journal, q.record)
  /\ built' = Append(built, Apply(built[Len(built)], q.record.op))
  /\ Reply(q, "ok")
  /\ UNCHANGED checkpoint

StoreCheckpoint(q) ==
  /\ CheckOwner(q)
  /\ q.kind = "checkpoint"
  /\ checkpoint' = q.checkpoint
  /\ Reply(q, "ok")
  /\ UNCHANGED <<journal, built>>

Serve(q) ==
  \/ RefuseNotOwner(q)
  \/ RefuseDuplicate(q)
  \/ AppendRecord(q)
  \/ StoreCheckpoint(q)

-----------------------------------------------------------------------------
(***************************************************************************)
(* The call returns to the session, or never does                          *)
(***************************************************************************)
Return(h, why) ==
  /\ phase' = [phase EXCEPT ![h] = "live"]
  /\ pending' = [pending EXCEPT ![h] = NoRequest]
  /\ answer' = [answer EXCEPT ![h] = "none"]
  /\ last' = [last EXCEPT ![h] = why]

(* Mutated form: the stream is extended and the held tree is not moved. *)
AdoptRecordWithoutTree(h) ==
  /\ phase[h] = "waiting"
  /\ answer[h] = "ok"
  /\ pending[h].kind = "append"
  /\ stream' = [stream EXCEPT ![h] = Append(@, pending[h].record)]
  /\ acked' = acked \cup {pending[h].record}
  /\ Return(h, "ok")
  /\ UNCHANGED <<owner, journal, checkpoint, wire, token, tree, position, built>>

(* Step 4 of apply_op: extend the stream, adopt the tree, answer Ok. *)
AdoptRecord(h) ==
  /\ phase[h] = "waiting"
  /\ answer[h] = "ok"
  /\ pending[h].kind = "append"
  /\ LET r == pending[h].record
     IN  /\ stream' = [stream EXCEPT ![h] = Append(@, r)]
         /\ tree' = [tree EXCEPT ![h] = Apply(@, r.op)]
         /\ acked' = acked \cup {r}
  /\ Return(h, "ok")
  /\ UNCHANGED <<owner, journal, checkpoint, wire, token, position, built>>

CheckpointStored(h) ==
  /\ phase[h] = "waiting"
  /\ answer[h] = "ok"
  /\ pending[h].kind = "checkpoint"
  /\ Return(h, "ok")
  /\ UNCHANGED <<owner, journal, checkpoint, wire, token, stream, tree,
                 position, built, acked>>

(* A refusal leaves stream and tree where they were. *)
WriteRefused(h) ==
  /\ phase[h] = "waiting"
  /\ answer[h] \in {"not_owner", "corrupt"}
  /\ Return(h, answer[h])
  /\ UNCHANGED <<owner, journal, checkpoint, wire, token, stream, tree,
                 position, built, acked>>

(* The store declines before acting: nothing landed and nothing will. *)
Unavailable(h) ==
  /\ phase[h] = "waiting"
  /\ answer[h] = "none"
  /\ pending[h] \in wire
  /\ wire' = wire \ {pending[h]}
  /\ Return(h, "unavailable")
  /\ UNCHANGED <<owner, journal, checkpoint, token, stream, tree, position,
                 built, acked>>

(* The store could not answer, whatever became of the write. *)
LoseAnswer(h) ==
  /\ AmbiguousStore
  /\ phase[h] = "waiting"
  /\ Return(h, "unavailable")
  /\ UNCHANGED <<owner, journal, checkpoint, wire, token, stream, tree,
                 position, built, acked>>

(* The runtime evicts the host, at any point; its writes stay in flight. *)
Evict(h) ==
  /\ phase[h] # "idle"
  /\ Forget(h, "none")
  /\ UNCHANGED <<owner, journal, checkpoint, wire, built, acked>>

-----------------------------------------------------------------------------
Activate(h) ==
  \/ Acquire(h)
  \/ AcquireUnanswered(h)
  \/ ReadJournal(h)
  \/ ReadCheckpoint(h)
  \/ ReplayRecord(h)
  \/ FinishActivation(h)

Call(h) ==
  \/ \E o \in Op : RefuseOp(h, o) \/ ApplyOp(h, o)
  \/ TakeCheckpoint(h)

CallReturns(h) ==
  \/ AdoptRecord(h)
  \/ CheckpointStored(h)
  \/ WriteRefused(h)
  \/ Unavailable(h)
  \/ LoseAnswer(h)

Next ==
  \/ \E h \in Host : Activate(h) \/ Call(h) \/ CallReturns(h) \/ Evict(h)
  \/ \E q \in wire : Serve(q)

Spec == Init /\ [][Next]_vars

(* activate and apply_op are straight-line code once called and answered,  *)
(* and the store serves each call it receives.  Nothing obliges a caller  *)
(* to call, nor a call to be given up.                                     *)
Progress(h) ==
  \/ ReadJournal(h)
  \/ ReadCheckpoint(h)
  \/ ReplayRecord(h)
  \/ FinishActivation(h)
  \/ AdoptRecord(h)
  \/ CheckpointStored(h)
  \/ WriteRefused(h)

FairSpec ==
  /\ Spec
  /\ \A h \in Host : WF_vars(Progress(h))
  /\ \A h \in Host : WF_vars(pending[h] \in wire /\ Serve(pending[h]))

-----------------------------------------------------------------------------
(***************************************************************************)
(* Properties                                                              *)
(***************************************************************************)
(* edge/mod.rs: "the journal, ascending from sequence 1", which verify_chain *)
(* accepts.  The store's append refuses only a duplicate sequence, so that   *)
(* no gap and no foreign link ever lands is the work of the fence and of the *)
(* order of activate's steps.                                                *)
JournalIsChain == VerifyChain(journal)

(* "A journal only holds ops that applied once": the ops of the journal, in  *)
(* order, all apply from the seed, whoever journaled them.                   *)
JournalReplays ==
  /\ Len(built) = Len(journal) + 1
  /\ \A n \in 1 .. Len(built) : built[n] \in Tree

(* Checkpoint: the snapshot the store holds is the fold of the prefix it     *)
(* says it is, whichever activation wrote it and however late it landed.     *)
CheckpointIsFold ==
  checkpoint # NoCheckpoint =>
    /\ checkpoint.through <= Len(journal)
    /\ checkpoint.tree = built[checkpoint.through + 1]

(* The owner's session holds a prefix of the journal and exactly the tree    *)
(* that prefix builds, also while a write of its own is in flight.           *)
IsPrefixOfJournal(s) ==
  /\ Len(s) <= Len(journal)
  /\ \A i \in 1 .. Len(s) : s[i] = journal[i]

OwnerHoldsItsPrefix ==
  \A h \in Host :
    phase[h] \in Running /\ token[h] = owner =>
      /\ IsPrefixOfJournal(stream[h])
      /\ tree[h] = built[Len(stream[h]) + 1]

(* A superseded session serves history, never invention: whatever tree a     *)
(* live session shows is one the journal has passed through, although its    *)
(* reads may have straddled a newer activation's writes.                     *)
EveryTreeIsHistory ==
  \A h \in Host :
    phase[h] \in Running =>
      /\ IsPrefixOfJournal(stream[h])
      /\ \E n \in 1 .. Len(built) : tree[h] = built[n]

(* One owner per session: the journal is written by one activation at a time,*)
(* in the order their tokens were issued, never interleaved.                 *)
JournalByActivation ==
  \A i, j \in 1 .. Len(journal) : i < j => journal[i].by <= journal[j].by

(* apply_op's Ok is durable: every record acknowledged to a caller is in the *)
(* journal, at its sequence, for ever.                                       *)
AckedSurvive ==
  \A r \in acked : r.sequence \in 1 .. Len(journal) /\ journal[r.sequence] = r

(* activate never meets EdgeError::Chain or EdgeError::Replay on a session   *)
(* this code wrote: not even when it reads a journal and a checkpoint that a *)
(* newer activation moved between the two reads.                             *)
RehydrationNeverBreaks ==
  \A h \in Host : last[h] \notin {"chain_error", "replay_error"}

(* EdgeError::Store: "On an append failure the held tree is untouched, so    *)
(* the session is still exactly its journal."                                *)
OwnerIsItsJournal ==
  \A h \in Host :
    phase[h] = "live" /\ token[h] = owner =>
      stream[h] = journal /\ tree[h] = built[Len(built)]

(* StoreError::Unavailable: "the caller may retry, and apply_op has left the *)
(* held tree untouched so a retry is safe": an owner is never told that the  *)
(* sequence it writes is already journaled.                                  *)
NoOwnerIsCorrupt ==
  \A h \in Host : last[h] # "corrupt"

(* Both together: over a store that fails only definitely, a live owner is   *)
(* at its journal's end after every call, whatever was refused, late or      *)
(* taken over meanwhile, so its next sequence is always free.                *)
RetryIsSafe == OwnerIsItsJournal /\ NoOwnerIsCorrupt

(* A store call ends although no timer gives it up, and so does an           *)
(* activation, however often other hosts take the session over meanwhile:    *)
(* a write the fence turns away is answered, not dropped.                    *)
NoCallHangs ==
  \A h \in Host :
    phase[h] \in Activating \cup {"waiting"} ~> phase[h] \in {"idle", "live"}

-----------------------------------------------------------------------------
(***************************************************************************)
(* The inductive invariant behind the safety properties: what is true of   *)
(* the store, of a write in flight, of an activation half done, of a live  *)
(* session and of its outstanding call, whenever the fence still lets them *)
(* write.                                                                  *)
(***************************************************************************)

(* A token is held by one host, and none is newer than the store's. *)
TokensFence ==
  /\ \A h \in Host : token[h] <= owner /\ (phase[h] = "idle" <=> token[h] = 0)
  /\ \A g, h \in Host : token[g] = token[h] /\ token[g] # 0 => g = h
  /\ \A q \in wire : q.token \in 1 .. owner

(* The trees of the history are the fold of the journal from the seed. *)
BuiltIsFold ==
  /\ Len(built) = Len(journal) + 1
  /\ built[1] = Seed
  /\ \A n \in 1 .. Len(built) : built[n] \in Tree
  /\ \A n \in 1 .. Len(journal) : built[n + 1] = Apply(built[n], journal[n].op)

(* No record is by an activation that has not happened. *)
JournalWriters ==
  /\ \A i \in 1 .. Len(journal) : journal[i].by <= owner
  /\ JournalByActivation

(* A record that links to a prefix of the journal, and applies to its tree. *)
Anchored(r) ==
  /\ r.sequence \in 1 .. Len(journal) + 1
  /\ r.previous = (IF r.sequence = 1 THEN Genesis ELSE journal[r.sequence - 1].hash)
  /\ r.hash = ComputeHash(r.previous, r.op, r.sequence, r.by)
  /\ Apply(built[r.sequence], r.op) \in Tree

FoldsPrefix(c) ==
  /\ c.through <= Len(journal)
  /\ c.tree = built[c.through + 1]

(* Whatever the fence would still let in fits the journal. *)
WritesFit ==
  \A q \in wire :
    /\ q.kind = "append" => q.record.by = q.token
    /\ q.token = owner /\ q.kind = "append" => Anchored(q.record)
    /\ q.token = owner /\ q.kind = "checkpoint" => FoldsPrefix(q.checkpoint)

(* The owner activates with nothing in flight, over the whole journal; any  *)
(* activation replays a prefix of it.                                       *)
ActivationFits ==
  \A h \in Host :
    /\ phase[h] \in Activating /\ token[h] = owner =>
         \A q \in wire : q.token # owner
    /\ phase[h] \in {"journal_read", "replaying"} =>
         /\ IsPrefixOfJournal(stream[h])
         /\ token[h] = owner => stream[h] = journal
    /\ phase[h] = "replaying" =>
         /\ position[h] <= Len(journal)
         /\ tree[h] = built[position[h] + 1]

(* An outstanding call is this session's, and an Ok means it landed. *)
CallsFit ==
  \A h \in Host :
    /\ phase[h] # "waiting" => pending[h] = NoRequest /\ answer[h] = "none"
    /\ phase[h] = "waiting" =>
         /\ pending[h] \in Request
         /\ pending[h].token = token[h]
         /\ pending[h].kind = "append" =>
              LET r == pending[h].record
              IN  /\ r = NextRecord(stream[h], r.op, token[h])
                  /\ Apply(tree[h], r.op) \in Tree
                  /\ answer[h] = "ok" =>
                       /\ Len(stream[h]) < Len(journal)
                       /\ journal[Len(stream[h]) + 1] = r
                       /\ Apply(tree[h], r.op) = built[Len(stream[h]) + 2]

SafetyInv ==
  /\ TypeOK
  /\ TokensFence
  /\ JournalIsChain
  /\ BuiltIsFold
  /\ JournalWriters
  /\ CheckpointIsFold
  /\ WritesFit
  /\ ActivationFits
  /\ EveryTreeIsHistory
  /\ OwnerHoldsItsPrefix
  /\ CallsFit
  /\ AckedSurvive
  /\ RehydrationNeverBreaks

(* What a store that fails only definitely adds: the owner has at most its *)
(* own outstanding write in flight, and no answer of it is missing.        *)
DefiniteInv ==
  \A h \in Host :
    /\ last[h] # "corrupt" /\ answer[h] # "corrupt"
    /\ phase[h] = "live" /\ token[h] = owner =>
         /\ stream[h] = journal
         /\ \A q \in wire : q.token # owner
    /\ phase[h] = "waiting" /\ token[h] = owner =>
         /\ answer[h] # "not_owner"
         /\ \A q \in wire : q.token = owner => q = pending[h] /\ answer[h] = "none"
         /\ IF answer[h] = "ok" /\ pending[h].kind = "append"
            THEN Len(journal) = Len(stream[h]) + 1
            ELSE stream[h] = journal

-----------------------------------------------------------------------------
(* The session is an append-only applied history with durable answers.       *)
History == INSTANCE DurableLog WITH
  log <- [i \in 1 .. Len(journal) |-> journal[i].op],
  tree <- built[Len(built)],
  confirmed <- {r.sequence : r \in acked}

IsDurableLog == History!Spec
=============================================================================
