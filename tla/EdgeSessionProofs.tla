------------------------- MODULE EdgeSessionProofs --------------------------
(***************************************************************************)
(* SafetyInv of EdgeSession is inductive, for every set of hosts, of ops   *)
(* and of trees, every apply function and both kinds of store; the safety  *)
(* properties of the runs follow from it.                                  *)
(***************************************************************************)
EXTENDS EdgeSession, TLAPS

(* The initial state of a session nobody has activated satisfies SafetyInv. *)
LEMMA InitSafetyInv == Init => SafetyInv
<1> SUFFICES ASSUME Init PROVE SafetyInv
  OBVIOUS
<1> USE TreeAssumption, StoreAssumption, SentinelAssumption DEF Init
<1>1. TypeOK
  BY DEF TypeOK, Phase, Outcome
<1>2. TokensFence
  BY DEF TokensFence
<1>3. JournalIsChain /\ JournalWriters /\ BuiltIsFold /\ CheckpointIsFold
  BY DEF JournalIsChain, VerifyChain, JournalWriters, JournalByActivation,
         BuiltIsFold, CheckpointIsFold
<1>4. WritesFit /\ ActivationFits /\ CallsFit
  BY DEF WritesFit, ActivationFits, CallsFit, Activating
<1>5. EveryTreeIsHistory /\ OwnerHoldsItsPrefix
  BY DEF EveryTreeIsHistory, OwnerHoldsItsPrefix, Running
<1>6. AckedSurvive /\ RehydrationNeverBreaks
  BY DEF AckedSurvive, RehydrationNeverBreaks
<1>7. QED
  BY <1>1, <1>2, <1>3, <1>4, <1>5, <1>6 DEF SafetyInv

-----------------------------------------------------------------------------
(***************************************************************************)
(* Forgetting a host's memory is always safe: eviction and every failed    *)
(* activation are this step.                                               *)
(***************************************************************************)
LEMMA ForgetStep ==
  ASSUME SafetyInv, NEW h \in Host,
         NEW why \in {"none", "decode_error"}, Forget(h, why),
         UNCHANGED <<owner, journal, checkpoint, wire, built, acked>>
  PROVE  SafetyInv'
<1> USE TreeAssumption DEF SafetyInv, Forget
<1>1. TypeOK'
  BY DEF TypeOK, Phase, Outcome
<1>2. TokensFence'
  BY DEF TypeOK, TokensFence
<1>3. JournalIsChain' /\ JournalWriters' /\ BuiltIsFold' /\ CheckpointIsFold'
  BY DEF JournalIsChain, VerifyChain, JournalWriters, JournalByActivation,
         BuiltIsFold, CheckpointIsFold
<1>4. WritesFit'
  BY DEF WritesFit, Anchored, FoldsPrefix
<1>5. ActivationFits'
  BY DEF TypeOK, ActivationFits, Activating, IsPrefixOfJournal
<1>6. CallsFit'
  BY DEF TypeOK, CallsFit, NextRecord, ChainHead
<1>7. EveryTreeIsHistory' /\ OwnerHoldsItsPrefix'
  BY DEF TypeOK, EveryTreeIsHistory, OwnerHoldsItsPrefix, Running, IsPrefixOfJournal
<1>8. AckedSurvive' /\ RehydrationNeverBreaks'
  BY DEF TypeOK, AckedSurvive, RehydrationNeverBreaks
<1>9. QED
  BY <1>1, <1>2, <1>3, <1>4, <1>5, <1>6, <1>7, <1>8

(* A fresh token supersedes every other and has nothing in flight. *)
LEMMA AcquireStep ==
  ASSUME SafetyInv, NEW h \in Host, Acquire(h)
  PROVE  SafetyInv'
<1> USE TreeAssumption DEF SafetyInv, Acquire
<1>1. TypeOK'
  BY DEF TypeOK, Phase, Outcome, Activating, Running
<1>2. TokensFence'
  BY DEF TypeOK, TokensFence
<1>3. JournalIsChain' /\ JournalWriters' /\ BuiltIsFold' /\ CheckpointIsFold'
  <2>1. \A i \in 1 .. Len(journal) : journal[i].by \in Nat
    <3>1. journal \in Seq(Record)
      BY DEF TypeOK
    <3>2. \A i \in 1 .. Len(journal) : journal[i] \in Record
      BY <3>1
    <3>3. QED
      BY <3>2 DEF Record
  <2>2. JournalWriters'
    BY <2>1 DEF TypeOK, JournalWriters, JournalByActivation
  <2>3. QED
    BY <2>2 DEF JournalIsChain, VerifyChain, BuiltIsFold, CheckpointIsFold
<1>4. WritesFit'
  BY DEF WritesFit, Anchored, FoldsPrefix, TypeOK, TokensFence
<1>5. ActivationFits'
  BY DEF TypeOK, ActivationFits, Activating, IsPrefixOfJournal, TokensFence
<1>6. CallsFit'
  BY DEF TypeOK, CallsFit, NextRecord, ChainHead
<1>7. EveryTreeIsHistory'
  BY DEF TypeOK, EveryTreeIsHistory, Running, IsPrefixOfJournal, Activating, TokensFence
<1>8. OwnerHoldsItsPrefix'
  BY DEF TypeOK, OwnerHoldsItsPrefix, Running, IsPrefixOfJournal, TokensFence
<1>9. AckedSurvive' /\ RehydrationNeverBreaks'
  BY DEF TypeOK, AckedSurvive, RehydrationNeverBreaks
<1>10. QED
  BY <1>1, <1>2, <1>3, <1>4, <1>5, <1>6, <1>7, <1>8, <1>9

(* A token nobody holds supersedes every holder. *)
LEMMA AcquireUnansweredStep ==
  ASSUME SafetyInv, NEW h \in Host, AcquireUnanswered(h)
  PROVE  SafetyInv'
<1> USE TreeAssumption DEF SafetyInv, AcquireUnanswered
<1>1. TypeOK'
  BY DEF TypeOK, Phase, Outcome, Activating, Running
<1>2. TokensFence'
  BY DEF TypeOK, TokensFence
<1>3. JournalIsChain' /\ JournalWriters' /\ BuiltIsFold' /\ CheckpointIsFold'
  <2>1. \A i \in 1 .. Len(journal) : journal[i].by \in Nat
    <3>1. journal \in Seq(Record)
      BY DEF TypeOK
    <3>2. \A i \in 1 .. Len(journal) : journal[i] \in Record
      BY <3>1
    <3>3. QED
      BY <3>2 DEF Record
  <2>2. JournalWriters'
    BY <2>1 DEF TypeOK, JournalWriters, JournalByActivation
  <2>3. QED
    BY <2>2 DEF JournalIsChain, VerifyChain, BuiltIsFold, CheckpointIsFold
<1>4. WritesFit'
  BY DEF WritesFit, Anchored, FoldsPrefix, TypeOK, TokensFence
<1>5. ActivationFits'
  BY DEF TypeOK, ActivationFits, Activating, IsPrefixOfJournal, TokensFence
<1>6. CallsFit'
  BY DEF TypeOK, CallsFit, NextRecord, ChainHead
<1>7. EveryTreeIsHistory'
  BY DEF TypeOK, EveryTreeIsHistory, Running, IsPrefixOfJournal, Activating, TokensFence
<1>8. OwnerHoldsItsPrefix'
  BY DEF TypeOK, OwnerHoldsItsPrefix, Running, IsPrefixOfJournal, TokensFence
<1>9. AckedSurvive' /\ RehydrationNeverBreaks'
  BY DEF TypeOK, AckedSurvive, RehydrationNeverBreaks
<1>10. QED
  BY <1>1, <1>2, <1>3, <1>4, <1>5, <1>6, <1>7, <1>8, <1>9

(* The owner's stream is the whole journal; anyone's is a prefix. *)
LEMMA ReadJournalStep ==
  ASSUME SafetyInv, NEW h \in Host, ReadJournal(h)
  PROVE  SafetyInv'
<1> USE TreeAssumption DEF SafetyInv
<1>a. /\ phase' = [phase EXCEPT ![h] = "journal_read"]
      /\ stream' = [stream EXCEPT ![h] = journal]
      /\ UNCHANGED <<token, tree, position, pending, answer, last, owner, journal,
                     checkpoint, wire, built, acked>>
  BY DEF ReadJournal, JournalIsChain
<1>b. phase[h] = "acquired"
  BY DEF ReadJournal
<1> USE <1>a, <1>b
<1>1. TypeOK'
  BY DEF TypeOK, Phase, Outcome, Activating, Running
<1>2. TokensFence'
  BY DEF TypeOK, TokensFence
<1>3. JournalIsChain' /\ JournalWriters' /\ BuiltIsFold' /\ CheckpointIsFold'
  BY DEF JournalIsChain, VerifyChain, JournalWriters, JournalByActivation,
         BuiltIsFold, CheckpointIsFold
<1>4. WritesFit'
  BY DEF WritesFit, Anchored, FoldsPrefix
<1>5. ActivationFits'
  BY DEF TypeOK, ActivationFits, Activating, IsPrefixOfJournal, TokensFence
<1>6. CallsFit'
  BY DEF TypeOK, CallsFit, NextRecord, ChainHead
<1>7. EveryTreeIsHistory'
  BY DEF TypeOK, EveryTreeIsHistory, Running, IsPrefixOfJournal
<1>8. OwnerHoldsItsPrefix'
  BY DEF TypeOK, OwnerHoldsItsPrefix, Running, IsPrefixOfJournal
<1>9. AckedSurvive' /\ RehydrationNeverBreaks'
  BY DEF TypeOK, AckedSurvive, RehydrationNeverBreaks
<1>10. QED
  BY <1>1, <1>2, <1>3, <1>4, <1>5, <1>6, <1>7, <1>8, <1>9

(* The base of the replay is a tree of the history. *)
LEMMA BaseReadStep ==
  ASSUME SafetyInv, NEW h \in Host, NEW base \in Checkpoint,
         FoldsPrefix(base), phase[h] = "journal_read",
         phase' = [phase EXCEPT ![h] = "replaying"],
         tree' = [tree EXCEPT ![h] = base.tree],
         position' = [position EXCEPT ![h] = base.through],
         UNCHANGED <<owner, journal, checkpoint, wire, token, stream, pending,
                     answer, last, built, acked>>
  PROVE  SafetyInv'
<1> USE TreeAssumption DEF SafetyInv, FoldsPrefix, Checkpoint
<1>1. TypeOK'
  BY DEF TypeOK, Phase, Outcome, Activating, Running
<1>2. TokensFence'
  BY DEF TypeOK, TokensFence
<1>3. JournalIsChain' /\ JournalWriters' /\ BuiltIsFold' /\ CheckpointIsFold'
  BY DEF JournalIsChain, VerifyChain, JournalWriters, JournalByActivation,
         BuiltIsFold, CheckpointIsFold
<1>4. WritesFit'
  BY DEF WritesFit, Anchored, FoldsPrefix
<1>5. ActivationFits'
  BY DEF TypeOK, ActivationFits, Activating, IsPrefixOfJournal, TokensFence
<1>6. CallsFit'
  BY DEF TypeOK, CallsFit, NextRecord, ChainHead
<1>7. EveryTreeIsHistory'
  BY DEF TypeOK, EveryTreeIsHistory, Running, IsPrefixOfJournal
<1>8. OwnerHoldsItsPrefix'
  BY DEF TypeOK, OwnerHoldsItsPrefix, Running, IsPrefixOfJournal
<1>9. AckedSurvive' /\ RehydrationNeverBreaks'
  BY DEF TypeOK, AckedSurvive, RehydrationNeverBreaks
<1>10. QED
  BY <1>1, <1>2, <1>3, <1>4, <1>5, <1>6, <1>7, <1>8, <1>9

(* Reading the checkpoint replays from it, or fails on its bytes. *)
LEMMA ReadCheckpointStep ==
  ASSUME SafetyInv, NEW h \in Host, ReadCheckpoint(h)
  PROVE  SafetyInv'
<1> DEFINE base == IF checkpoint = NoCheckpoint
                   THEN [through |-> 0, tree |-> Seed] ELSE checkpoint
<1>1. base \in Checkpoint /\ FoldsPrefix(base)
  BY TreeAssumption DEF SafetyInv, TypeOK, Checkpoint, FoldsPrefix, CheckpointIsFold,
                        BuiltIsFold
<1>2. CASE base.tree \in Decodable
  <2>1. /\ phase[h] = "journal_read"
        /\ phase' = [phase EXCEPT ![h] = "replaying"]
        /\ tree' = [tree EXCEPT ![h] = base.tree]
        /\ position' = [position EXCEPT ![h] = base.through]
        /\ UNCHANGED <<owner, journal, checkpoint, wire, token, stream, pending,
                       answer, last, built, acked>>
    BY <1>2 DEF ReadCheckpoint
  <2>2. QED
    BY <1>1, <2>1, BaseReadStep
<1>3. CASE base.tree \notin Decodable
  <2>1. /\ Forget(h, "decode_error")
        /\ UNCHANGED <<owner, journal, checkpoint, wire, built, acked>>
    BY <1>3 DEF ReadCheckpoint
  <2>2. QED
    BY <2>1, ForgetStep
<1>4. QED
  BY <1>2, <1>3

(* Each replayed record moves the tree one step along the history. *)
LEMMA ReplayRecordStep ==
  ASSUME SafetyInv, NEW h \in Host, ReplayRecord(h)
  PROVE  SafetyInv'
<1> USE TreeAssumption DEF SafetyInv
<1>a. /\ phase[h] = "replaying"
      /\ position[h] \in Nat /\ position[h] + 1 \in 1 .. Len(journal)
      /\ stream[h][position[h] + 1] = journal[position[h] + 1]
  <2>1. /\ phase[h] = "replaying" /\ position[h] \in Nat
        /\ position[h] < Len(stream[h])
        /\ stream[h] \in Seq(Record) /\ journal \in Seq(Record)
        /\ IsPrefixOfJournal(stream[h])
    BY DEF ReplayRecord, TypeOK, ActivationFits
  <2>2. QED
    BY <2>1 DEF IsPrefixOfJournal
<1>b. Apply(tree[h], stream[h][position[h] + 1].op) = built[position[h] + 2]
  BY <1>a DEF ActivationFits, BuiltIsFold
<1>c. built[position[h] + 2] \in Tree
  BY <1>a DEF BuiltIsFold, TypeOK
<1>d. /\ tree' = [tree EXCEPT ![h] = built[position[h] + 2]]
      /\ position' = [position EXCEPT ![h] = position[h] + 1]
      /\ UNCHANGED <<owner, journal, checkpoint, wire, phase, token, stream, pending,
                     answer, last, built, acked>>
  BY <1>b, <1>c DEF ReplayRecord
<1> USE <1>a, <1>c, <1>d
<1>1. TypeOK'
  BY DEF TypeOK, Phase, Outcome, Activating, Running
<1>2. TokensFence'
  BY DEF TypeOK, TokensFence
<1>3. JournalIsChain' /\ JournalWriters' /\ BuiltIsFold' /\ CheckpointIsFold'
  BY DEF JournalIsChain, VerifyChain, JournalWriters, JournalByActivation,
         BuiltIsFold, CheckpointIsFold
<1>4. WritesFit'
  BY DEF WritesFit, Anchored, FoldsPrefix
<1>5. ActivationFits'
  BY DEF TypeOK, ActivationFits, Activating, IsPrefixOfJournal, TokensFence
<1>6. CallsFit'
  BY DEF TypeOK, CallsFit, NextRecord, ChainHead
<1>7. EveryTreeIsHistory'
  BY DEF TypeOK, EveryTreeIsHistory, Running, IsPrefixOfJournal
<1>8. OwnerHoldsItsPrefix'
  BY DEF TypeOK, OwnerHoldsItsPrefix, Running, IsPrefixOfJournal
<1>9. AckedSurvive' /\ RehydrationNeverBreaks'
  BY DEF TypeOK, AckedSurvive, RehydrationNeverBreaks
<1>10. QED
  BY <1>1, <1>2, <1>3, <1>4, <1>5, <1>6, <1>7, <1>8, <1>9

(* The replay ends at a tree of the history, the owner's at its last. *)
LEMMA FinishActivationStep ==
  ASSUME SafetyInv, NEW h \in Host, FinishActivation(h)
  PROVE  SafetyInv'
<1> USE TreeAssumption DEF SafetyInv, FinishActivation
<1>a. /\ phase[h] = "replaying" /\ position[h] >= Len(stream[h])
      /\ position[h] \in Nat /\ position[h] + 1 \in 1 .. Len(built)
      /\ tree[h] = built[position[h] + 1]
      /\ IsPrefixOfJournal(stream[h])
      /\ token[h] = owner => position[h] = Len(stream[h])
  BY DEF FinishActivation, ActivationFits, TypeOK, BuiltIsFold
<1>1. TypeOK'
  BY DEF TypeOK, Phase, Outcome, Activating, Running
<1>2. TokensFence'
  BY DEF TypeOK, TokensFence
<1>3. JournalIsChain' /\ JournalWriters' /\ BuiltIsFold' /\ CheckpointIsFold'
  BY DEF JournalIsChain, VerifyChain, JournalWriters, JournalByActivation,
         BuiltIsFold, CheckpointIsFold
<1>4. WritesFit'
  BY DEF WritesFit, Anchored, FoldsPrefix
<1>5. ActivationFits'
  BY DEF TypeOK, ActivationFits, Activating, IsPrefixOfJournal, TokensFence
<1>6. CallsFit'
  BY DEF TypeOK, CallsFit, NextRecord, ChainHead
<1>7. EveryTreeIsHistory'
  BY <1>a DEF TypeOK, EveryTreeIsHistory, Running, IsPrefixOfJournal
<1>8. OwnerHoldsItsPrefix'
  BY <1>a DEF TypeOK, OwnerHoldsItsPrefix, Running, IsPrefixOfJournal
<1>9. AckedSurvive' /\ RehydrationNeverBreaks'
  BY DEF TypeOK, AckedSurvive, RehydrationNeverBreaks
<1>10. QED
  BY <1>1, <1>2, <1>3, <1>4, <1>5, <1>6, <1>7, <1>8, <1>9

(* A refused op changes nothing. *)
LEMMA RefuseOpStep ==
  ASSUME SafetyInv, NEW h \in Host, NEW o \in Op, RefuseOp(h, o)
  PROVE  SafetyInv'
<1> USE TreeAssumption DEF SafetyInv, RefuseOp
<1>1. TypeOK'
  BY DEF TypeOK, Phase, Outcome, Activating, Running
<1>2. TokensFence'
  BY DEF TypeOK, TokensFence
<1>3. JournalIsChain' /\ JournalWriters' /\ BuiltIsFold' /\ CheckpointIsFold'
  BY DEF JournalIsChain, VerifyChain, JournalWriters, JournalByActivation,
         BuiltIsFold, CheckpointIsFold
<1>4. WritesFit'
  BY DEF WritesFit, Anchored, FoldsPrefix
<1>5. ActivationFits'
  BY DEF TypeOK, ActivationFits, Activating, IsPrefixOfJournal, TokensFence
<1>6. CallsFit'
  BY DEF TypeOK, CallsFit, NextRecord, ChainHead
<1>7. EveryTreeIsHistory'
  BY DEF TypeOK, EveryTreeIsHistory, Running, IsPrefixOfJournal
<1>8. OwnerHoldsItsPrefix'
  BY DEF TypeOK, OwnerHoldsItsPrefix, Running, IsPrefixOfJournal
<1>9. AckedSurvive' /\ RehydrationNeverBreaks'
  BY DEF TypeOK, AckedSurvive, RehydrationNeverBreaks
<1>10. QED
  BY <1>1, <1>2, <1>3, <1>4, <1>5, <1>6, <1>7, <1>8, <1>9

(* The record a live session builds is well formed, and the owner's fits. *)
LEMMA NextRecordFits ==
  ASSUME SafetyInv, NEW h \in Host, phase[h] = "live", NEW o \in Op,
         Apply(tree[h], o) # NoTree
  PROVE  LET r == NextRecord(stream[h], o, token[h])
         IN  /\ r \in Record
             /\ r.op = o /\ r.by = token[h]
             /\ Apply(tree[h], o) \in Tree
             /\ token[h] = owner => Anchored(r)
<1> DEFINE r == NextRecord(stream[h], o, token[h])
<1> USE TreeAssumption DEF SafetyInv
<1>1. /\ stream[h] \in Seq(Record) /\ token[h] \in Nat /\ tree[h] \in Tree
      /\ journal \in Seq(Record)
      /\ IsPrefixOfJournal(stream[h])
  BY DEF TypeOK, EveryTreeIsHistory, Running
<1>2. ChainHead(stream[h]) \in Digest
  <2>1. CASE stream[h] = <<>>
    BY <2>1 DEF ChainHead, Digest, Genesis
  <2>2. CASE stream[h] # <<>>
    <3>1. stream[h][Len(stream[h])] \in Record
      BY <1>1, <2>2
    <3>2. QED
      BY <2>2, <3>1 DEF ChainHead, Record
  <2>3. QED
    BY <2>1, <2>2
<1>3. r \in Record
  <2>1. ComputeHash(ChainHead(stream[h]), o, Len(stream[h]) + 1, token[h]) \in Digest
    BY <1>1, <1>2 DEF ComputeHash, Digest
  <2>2. QED
    BY <1>1, <1>2, <2>1 DEF NextRecord, Record
<1>4. Apply(tree[h], o) \in Tree
  BY <1>1
<1>5. ASSUME token[h] = owner PROVE Anchored(r)
  <2>1. tree[h] = built[Len(stream[h]) + 1]
    BY <1>5 DEF OwnerHoldsItsPrefix, Running
  <2>2. r.previous = (IF r.sequence = 1 THEN Genesis ELSE journal[r.sequence - 1].hash)
    BY <1>1 DEF NextRecord, ChainHead, IsPrefixOfJournal
  <2>3. r.sequence \in 1 .. Len(journal) + 1 /\ r.sequence = Len(stream[h]) + 1
    BY <1>1 DEF NextRecord, IsPrefixOfJournal
  <2>4. QED
    BY <1>4, <2>1, <2>2, <2>3 DEF Anchored, NextRecord
<1>6. QED
  BY <1>3, <1>4, <1>5 DEF NextRecord

(* The owner's new record links to its prefix and applies there. *)
LEMMA ApplyOpStep ==
  ASSUME SafetyInv, NEW h \in Host, NEW o \in Op, ApplyOp(h, o)
  PROVE  SafetyInv'
<1> USE TreeAssumption DEF SafetyInv
<1> DEFINE r == NextRecord(stream[h], o, token[h])
            q == [kind |-> "append", token |-> token[h], record |-> r]
<1>a. /\ phase[h] = "live"
      /\ wire' = wire \cup {q}
      /\ pending' = [pending EXCEPT ![h] = q]
      /\ phase' = [phase EXCEPT ![h] = "waiting"]
      /\ last' = [last EXCEPT ![h] = "none"]
      /\ UNCHANGED <<owner, journal, checkpoint, token, stream, tree, position,
                     answer, built, acked>>
  BY DEF ApplyOp, Send
<1>b. /\ r \in Record
      /\ r.op = o /\ r.by = token[h]
      /\ Apply(tree[h], o) \in Tree
      /\ token[h] = owner => Anchored(r)
  BY <1>a, NextRecordFits DEF ApplyOp
<1>c. q \in Request /\ q.token = token[h] /\ q.record = r /\ q.kind = "append"
  BY <1>b DEF Request, AppendRequest, TypeOK
<1> HIDE DEF r, q
<1> USE <1>a
<1>1. TypeOK'
  BY <1>c DEF TypeOK, Phase, Outcome, Activating, Running
<1>2. TokensFence'
  BY <1>c DEF TypeOK, TokensFence
<1>3. JournalIsChain' /\ JournalWriters' /\ BuiltIsFold' /\ CheckpointIsFold'
  BY DEF JournalIsChain, VerifyChain, JournalWriters, JournalByActivation,
         BuiltIsFold, CheckpointIsFold
<1>4. WritesFit'
  BY <1>b, <1>c DEF WritesFit, Anchored, FoldsPrefix
<1>5. ActivationFits'
  BY <1>c DEF TypeOK, ActivationFits, Activating, IsPrefixOfJournal, TokensFence
<1>6. CallsFit'
  <2>1. r = NextRecord(stream[h], r.op, token[h])
    BY <1>b DEF r
  <2>2. QED
    BY <1>b, <1>c, <2>1 DEF TypeOK, CallsFit
<1>7. EveryTreeIsHistory'
  BY DEF TypeOK, EveryTreeIsHistory, Running, IsPrefixOfJournal
<1>8. OwnerHoldsItsPrefix'
  BY DEF TypeOK, OwnerHoldsItsPrefix, Running, IsPrefixOfJournal
<1>9. AckedSurvive' /\ RehydrationNeverBreaks'
  BY DEF TypeOK, AckedSurvive, RehydrationNeverBreaks
<1>10. QED
  BY <1>1, <1>2, <1>3, <1>4, <1>5, <1>6, <1>7, <1>8, <1>9

(* The owner's snapshot is the fold of its prefix. *)
LEMMA TakeCheckpointStep ==
  ASSUME SafetyInv, NEW h \in Host, TakeCheckpoint(h)
  PROVE  SafetyInv'
<1> USE TreeAssumption DEF SafetyInv
<1> DEFINE c == [through |-> Len(stream[h]), tree |-> tree[h]]
            q == [kind |-> "checkpoint", token |-> token[h], checkpoint |-> c]
<1>a. /\ phase[h] = "live"
      /\ wire' = wire \cup {q}
      /\ pending' = [pending EXCEPT ![h] = q]
      /\ phase' = [phase EXCEPT ![h] = "waiting"]
      /\ last' = [last EXCEPT ![h] = "none"]
      /\ UNCHANGED <<owner, journal, checkpoint, token, stream, tree, position,
                     answer, built, acked>>
  BY DEF TakeCheckpoint, Send
<1>b. c \in Checkpoint /\ (token[h] = owner => FoldsPrefix(c))
  BY <1>a DEF TypeOK, Checkpoint, FoldsPrefix, OwnerHoldsItsPrefix, Running, IsPrefixOfJournal
<1>c. q \in Request /\ q.token = token[h] /\ q.checkpoint = c /\ q.kind = "checkpoint"
  BY <1>b DEF Request, CheckpointRequest, TypeOK
<1> HIDE DEF c, q
<1> USE <1>a
<1>1. TypeOK'
  BY <1>c DEF TypeOK, Phase, Outcome, Activating, Running
<1>2. TokensFence'
  BY <1>c DEF TypeOK, TokensFence
<1>3. JournalIsChain' /\ JournalWriters' /\ BuiltIsFold' /\ CheckpointIsFold'
  BY DEF JournalIsChain, VerifyChain, JournalWriters, JournalByActivation,
         BuiltIsFold, CheckpointIsFold
<1>4. WritesFit'
  BY <1>b, <1>c DEF WritesFit, Anchored, FoldsPrefix
<1>5. ActivationFits'
  BY <1>c DEF TypeOK, ActivationFits, Activating, IsPrefixOfJournal, TokensFence
<1>6. CallsFit'
  BY <1>b, <1>c DEF TypeOK, CallsFit, NextRecord, ChainHead
<1>7. EveryTreeIsHistory'
  BY DEF TypeOK, EveryTreeIsHistory, Running, IsPrefixOfJournal
<1>8. OwnerHoldsItsPrefix'
  BY DEF TypeOK, OwnerHoldsItsPrefix, Running, IsPrefixOfJournal
<1>9. AckedSurvive' /\ RehydrationNeverBreaks'
  BY DEF TypeOK, AckedSurvive, RehydrationNeverBreaks
<1>10. QED
  BY <1>1, <1>2, <1>3, <1>4, <1>5, <1>6, <1>7, <1>8, <1>9

(* The fence answers and lets nothing in. *)
LEMMA RefuseNotOwnerStep ==
  ASSUME SafetyInv, NEW q \in wire, RefuseNotOwner(q)
  PROVE  SafetyInv'
<1> USE TreeAssumption DEF SafetyInv
<1>a. /\ wire' = wire \ {q}
      /\ answer' = [g \in Host |-> IF pending[g] = q THEN "not_owner" ELSE answer[g]]
      /\ UNCHANGED <<owner, journal, checkpoint, phase, token, stream, tree, position,
                     pending, last, built, acked>>
  BY DEF RefuseNotOwner, Reply
<1>b. q \in Request /\ q # NoRequest
  BY SentinelAssumption DEF TypeOK
<1> USE <1>a
<1>1. TypeOK'
  BY DEF TypeOK, Phase, Outcome, Activating, Running
<1>2. TokensFence'
  BY DEF TypeOK, TokensFence
<1>3. JournalIsChain' /\ JournalWriters' /\ BuiltIsFold' /\ CheckpointIsFold'
  BY DEF JournalIsChain, VerifyChain, JournalWriters, JournalByActivation,
         BuiltIsFold, CheckpointIsFold
<1>4. WritesFit'
  BY DEF WritesFit, Anchored, FoldsPrefix
<1>5. ActivationFits'
  BY DEF TypeOK, ActivationFits, Activating, IsPrefixOfJournal, TokensFence
<1>6. CallsFit'
  BY <1>b DEF TypeOK, CallsFit, NextRecord, ChainHead
<1>7. EveryTreeIsHistory'
  BY DEF TypeOK, EveryTreeIsHistory, Running, IsPrefixOfJournal
<1>8. OwnerHoldsItsPrefix'
  BY DEF TypeOK, OwnerHoldsItsPrefix, Running, IsPrefixOfJournal
<1>9. AckedSurvive' /\ RehydrationNeverBreaks'
  BY DEF TypeOK, AckedSurvive, RehydrationNeverBreaks
<1>10. QED
  BY <1>1, <1>2, <1>3, <1>4, <1>5, <1>6, <1>7, <1>8, <1>9

(* The duplicate check answers and lets nothing in. *)
LEMMA RefuseDuplicateStep ==
  ASSUME SafetyInv, NEW q \in wire, RefuseDuplicate(q)
  PROVE  SafetyInv'
<1> USE TreeAssumption DEF SafetyInv
<1>a. /\ wire' = wire \ {q}
      /\ answer' = [g \in Host |-> IF pending[g] = q THEN "corrupt" ELSE answer[g]]
      /\ UNCHANGED <<owner, journal, checkpoint, phase, token, stream, tree, position,
                     pending, last, built, acked>>
  BY DEF RefuseDuplicate, Reply
<1>b. q \in Request /\ q # NoRequest
  BY SentinelAssumption DEF TypeOK
<1> USE <1>a
<1>1. TypeOK'
  BY DEF TypeOK, Phase, Outcome, Activating, Running
<1>2. TokensFence'
  BY DEF TypeOK, TokensFence
<1>3. JournalIsChain' /\ JournalWriters' /\ BuiltIsFold' /\ CheckpointIsFold'
  BY DEF JournalIsChain, VerifyChain, JournalWriters, JournalByActivation,
         BuiltIsFold, CheckpointIsFold
<1>4. WritesFit'
  BY DEF WritesFit, Anchored, FoldsPrefix
<1>5. ActivationFits'
  BY DEF TypeOK, ActivationFits, Activating, IsPrefixOfJournal, TokensFence
<1>6. CallsFit'
  BY <1>b DEF TypeOK, CallsFit, NextRecord, ChainHead
<1>7. EveryTreeIsHistory'
  BY DEF TypeOK, EveryTreeIsHistory, Running, IsPrefixOfJournal
<1>8. OwnerHoldsItsPrefix'
  BY DEF TypeOK, OwnerHoldsItsPrefix, Running, IsPrefixOfJournal
<1>9. AckedSurvive' /\ RehydrationNeverBreaks'
  BY DEF TypeOK, AckedSurvive, RehydrationNeverBreaks
<1>10. QED
  BY <1>1, <1>2, <1>3, <1>4, <1>5, <1>6, <1>7, <1>8, <1>9

(* A snapshot that passes the fence is the fold of a prefix. *)
LEMMA StoreCheckpointStep ==
  ASSUME SafetyInv, NEW q \in wire, StoreCheckpoint(q)
  PROVE  SafetyInv'
<1> USE TreeAssumption DEF SafetyInv
<1>a. /\ wire' = wire \ {q}
      /\ checkpoint' = q.checkpoint
      /\ answer' = [g \in Host |-> IF pending[g] = q THEN "ok" ELSE answer[g]]
      /\ UNCHANGED <<owner, journal, phase, token, stream, tree, position,
                     pending, last, built, acked>>
      /\ q.kind = "checkpoint" /\ q.token = owner
  BY DEF StoreCheckpoint, Reply, CheckOwner
<1>b. q \in CheckpointRequest /\ q # NoRequest
  BY <1>a, SentinelAssumption DEF TypeOK, Request, AppendRequest
<1>c. q.checkpoint \in Checkpoint /\ FoldsPrefix(q.checkpoint)
  BY <1>a, <1>b DEF WritesFit, CheckpointRequest
<1> USE <1>a
<1>1. TypeOK'
  BY <1>c DEF TypeOK, Phase, Outcome, Activating, Running
<1>2. TokensFence'
  BY DEF TypeOK, TokensFence
<1>3. JournalIsChain' /\ JournalWriters' /\ BuiltIsFold' /\ CheckpointIsFold'
  BY <1>c DEF JournalIsChain, VerifyChain, JournalWriters, JournalByActivation,
         BuiltIsFold, CheckpointIsFold, FoldsPrefix
<1>4. WritesFit'
  BY DEF WritesFit, Anchored, FoldsPrefix
<1>5. ActivationFits'
  BY DEF TypeOK, ActivationFits, Activating, IsPrefixOfJournal, TokensFence
<1>6. CallsFit'
  BY <1>b DEF TypeOK, CallsFit, NextRecord, ChainHead
<1>7. EveryTreeIsHistory'
  BY DEF TypeOK, EveryTreeIsHistory, Running, IsPrefixOfJournal
<1>8. OwnerHoldsItsPrefix'
  BY DEF TypeOK, OwnerHoldsItsPrefix, Running, IsPrefixOfJournal
<1>9. AckedSurvive' /\ RehydrationNeverBreaks'
  BY DEF TypeOK, AckedSurvive, RehydrationNeverBreaks
<1>10. QED
  BY <1>1, <1>2, <1>3, <1>4, <1>5, <1>6, <1>7, <1>8, <1>9

(* A record that passes the fence and the duplicate check is the next one. *)
LEMMA AppendRecordStep ==
  ASSUME SafetyInv, NEW q \in wire, AppendRecord(q)
  PROVE  SafetyInv'
<1> USE TreeAssumption DEF SafetyInv
<1> DEFINE r == q.record
            t == Apply(built[Len(journal) + 1], q.record.op)
            n == Len(journal)
<1>a. /\ wire' = wire \ {q}
      /\ answer' = [g \in Host |-> IF pending[g] = q THEN "ok" ELSE answer[g]]
      /\ UNCHANGED <<owner, checkpoint, phase, token, stream, tree, position,
                     pending, last, acked>>
      /\ q.kind = "append" /\ q.token = owner /\ ~AlreadyJournaled(r)
  BY DEF AppendRecord, Reply, CheckOwner
<1>b. q \in AppendRequest /\ q # NoRequest
  BY <1>a, SentinelAssumption DEF TypeOK, Request, CheckpointRequest
<1>c. /\ r \in Record /\ r.by = owner /\ Anchored(r)
  BY <1>a, <1>b DEF WritesFit, AppendRequest
<1>d. /\ journal \in Seq(Record) /\ n \in Nat
      /\ built \in Seq(Tree \cup {NoTree}) /\ Len(built) = n + 1
      /\ owner \in Nat
  BY DEF TypeOK, BuiltIsFold
<1>e. r.sequence = n + 1
  <2>1. \A i \in 1 .. n : journal[i].sequence = i
    BY DEF JournalIsChain, VerifyChain
  <2>2. r.sequence \in 1 .. n + 1
    BY <1>c DEF Anchored
  <2>3. r.sequence \notin 1 .. n
    BY <1>a, <2>1 DEF AlreadyJournaled
  <2>4. QED
    BY <1>d, <2>2, <2>3
<1>f. t \in Tree
  BY <1>c, <1>e DEF Anchored
<1>g. /\ journal' \in Seq(Record) /\ Len(journal') = n + 1
      /\ \A i \in 1 .. n : journal'[i] = journal[i]
      /\ journal'[n + 1] = r
  BY <1>c, <1>d DEF AppendRecord
<1>h. /\ built' \in Seq(Tree \cup {NoTree}) /\ Len(built') = n + 2
      /\ \A i \in 1 .. n + 1 : built'[i] = built[i]
      /\ built'[n + 2] = t
  BY <1>d, <1>f DEF AppendRecord
<1> HIDE DEF t
<1> USE <1>a, <1>d, <1>g, <1>h
<1>1. TypeOK'
  BY DEF TypeOK, Phase, Outcome, Activating, Running
<1>2. TokensFence'
  BY DEF TypeOK, TokensFence
<1>3. JournalIsChain' /\ JournalWriters' /\ BuiltIsFold' /\ CheckpointIsFold'
  <2>1. JournalIsChain'
    <3> SUFFICES ASSUME NEW i \in 1 .. n + 1
                 PROVE  /\ journal'[i].sequence = i
                        /\ journal'[i].previous =
                             (IF i = 1 THEN Genesis ELSE journal'[i - 1].hash)
                        /\ journal'[i].hash = ComputeHash(journal'[i].previous,
                             journal'[i].op, journal'[i].sequence, journal'[i].by)
      BY DEF JournalIsChain, VerifyChain
    <3>1. CASE i \in 1 .. n
      <4>1. i # 1 => i - 1 \in 1 .. n
        BY <3>1
      <4>2. journal'[i] = journal[i] /\ (i # 1 => journal'[i - 1] = journal[i - 1])
        BY <3>1, <4>1
      <4>3. QED
        BY <3>1, <4>2 DEF JournalIsChain, VerifyChain
    <3>2. CASE i = n + 1
      <4>1. journal'[i] = r /\ (i # 1 => journal'[i - 1] = journal[i - 1])
        BY <3>2
      <4>2. QED
        BY <1>c, <1>e, <3>2, <4>1 DEF Anchored
    <3>3. QED
      BY <3>1, <3>2
  <2>2. \A i \in 1 .. n : journal[i].by <= owner
    BY DEF JournalWriters
  <2>3. JournalWriters'
    <3>1. \A i \in 1 .. n + 1 : journal'[i].by <= owner
      BY <1>c, <2>2
    <3>2. ASSUME NEW i \in 1 .. n + 1, NEW j \in 1 .. n + 1, i < j
          PROVE  journal'[i].by <= journal'[j].by
      <4>1. CASE j = n + 1
        BY <1>c, <3>1, <4>1
      <4>2. CASE j # n + 1
        <5>1. i \in 1 .. n /\ j \in 1 .. n
          BY <3>2, <4>2
        <5>2. QED
          BY <3>2, <5>1 DEF JournalWriters, JournalByActivation
      <4>3. QED
        BY <4>1, <4>2
    <3>3. QED
      BY <3>1, <3>2 DEF JournalWriters, JournalByActivation
  <2>4. BuiltIsFold'
    <3>1. built'[1] = Seed /\ \A i \in 1 .. n + 2 : built'[i] \in Tree
      BY <1>f DEF BuiltIsFold
    <3>2. ASSUME NEW i \in 1 .. n + 1
          PROVE  built'[i + 1] = Apply(built'[i], journal'[i].op)
      <4>1. CASE i = n + 1
        BY <4>1 DEF t
      <4>2. CASE i # n + 1
        <5>1. i \in 1 .. n /\ i + 1 \in 1 .. n + 1
          BY <4>2
        <5>2. QED
          BY <5>1 DEF BuiltIsFold
      <4>3. QED
        BY <4>1, <4>2
    <3>3. QED
      BY <3>1, <3>2 DEF BuiltIsFold
  <2>5. CheckpointIsFold'
    BY DEF CheckpointIsFold, TypeOK, Checkpoint
  <2>6. QED
    BY <2>1, <2>3, <2>4, <2>5
<1>4. WritesFit'
  <2> SUFFICES ASSUME NEW w \in wire
               PROVE  /\ w.kind = "append" => w.record.by = w.token
                      /\ w.token = owner /\ w.kind = "append" => Anchored(w.record)'
                      /\ w.token = owner /\ w.kind = "checkpoint"
                           => FoldsPrefix(w.checkpoint)'
    BY DEF WritesFit
  <2>1. CASE w.kind = "append"
    <3>1. /\ w.record.by = w.token
          /\ w.token = owner => Anchored(w.record)
      BY <2>1 DEF WritesFit
    <3>2. ASSUME w.token = owner
          PROVE  Anchored(w.record)'
      <4>1. Anchored(w.record)
        BY <3>1, <3>2
      <4>2. w.record.sequence \in 1 .. n + 1
        BY <4>1 DEF Anchored
      <4>3. built'[w.record.sequence] = built[w.record.sequence]
        BY <4>2
      <4>4. ASSUME w.record.sequence # 1
            PROVE  journal'[w.record.sequence - 1] = journal[w.record.sequence - 1]
        <5>1. w.record.sequence - 1 \in 1 .. n
          BY <4>2, <4>4
        <5>2. QED
          BY <5>1
      <4>5. QED
        BY <4>1, <4>2, <4>3, <4>4 DEF Anchored
    <3>3. QED
      BY <2>1, <3>1, <3>2
  <2>2. CASE w.kind = "checkpoint"
    <3>1. w.checkpoint \in Checkpoint
      BY <2>2 DEF TypeOK, Request, AppendRequest, CheckpointRequest
    <3>2. QED
      BY <2>2, <3>1 DEF WritesFit, FoldsPrefix, Checkpoint
  <2>3. QED
    BY <2>1, <2>2 DEF TypeOK, Request, AppendRequest, CheckpointRequest
<1>5. ActivationFits'
  <2>1. \A g \in Host : phase[g] \in Activating => token[g] # owner
    BY DEF ActivationFits
  <2>2. \A g \in Host : IsPrefixOfJournal(stream[g]) => IsPrefixOfJournal(stream[g])'
    <3> SUFFICES ASSUME NEW g \in Host, IsPrefixOfJournal(stream[g])
                 PROVE  IsPrefixOfJournal(stream[g])'
      OBVIOUS
    <3>1. stream[g] \in Seq(Record)
      BY DEF TypeOK
    <3>2. \A i \in 1 .. Len(stream[g]) : i \in 1 .. n
      BY <3>1 DEF IsPrefixOfJournal
    <3>3. QED
      BY <3>1, <3>2 DEF IsPrefixOfJournal
  <2>3. \A g \in Host : phase[g] = "replaying" =>
          position[g] <= n + 1 /\ tree[g] = built'[position[g] + 1]
    <3> SUFFICES ASSUME NEW g \in Host, phase[g] = "replaying"
                 PROVE  position[g] <= n + 1 /\ tree[g] = built'[position[g] + 1]
      OBVIOUS
    <3>1. position[g] \in Nat /\ position[g] <= n /\ tree[g] = built[position[g] + 1]
      BY DEF TypeOK, ActivationFits
    <3>2. position[g] + 1 \in 1 .. n + 1
      BY <3>1
    <3>3. QED
      BY <3>1, <3>2
  <2>4. QED
    BY <2>1, <2>2, <2>3 DEF ActivationFits, Activating
<1>6. CallsFit'
  <2> SUFFICES ASSUME NEW g \in Host, phase[g] = "waiting", pending[g].kind = "append",
                      answer'[g] = "ok"
               PROVE  LET p == pending[g].record
                      IN  /\ Len(stream[g]) < n + 1
                          /\ journal'[Len(stream[g]) + 1] = p
                          /\ Apply(tree[g], p.op) = built'[Len(stream[g]) + 2]
    BY <1>b DEF TypeOK, CallsFit
  <2>1. stream[g] \in Seq(Record) /\ IsPrefixOfJournal(stream[g])
    BY DEF TypeOK, EveryTreeIsHistory, Running
  <2>2. CASE pending[g] = q
    <3>1. token[g] = owner /\ r = NextRecord(stream[g], r.op, token[g])
      BY <2>2 DEF CallsFit
    <3>2. r.sequence = Len(stream[g]) + 1
      BY <2>1, <3>1 DEF NextRecord
    <3>3. tree[g] = built[Len(stream[g]) + 1]
      BY <3>1 DEF OwnerHoldsItsPrefix, Running
    <3>4. QED
      BY <1>e, <2>1, <2>2, <3>2, <3>3 DEF t
  <2>3. CASE pending[g] # q
    <3>1. /\ Len(stream[g]) < n
          /\ journal[Len(stream[g]) + 1] = pending[g].record
          /\ Apply(tree[g], pending[g].record.op) = built[Len(stream[g]) + 2]
      BY <2>3 DEF CallsFit
    <3>2. Len(stream[g]) + 1 \in 1 .. n /\ Len(stream[g]) + 2 \in 1 .. n + 1
      BY <2>1, <3>1
    <3>3. QED
      BY <2>1, <3>1, <3>2
  <2>4. QED
    BY <2>2, <2>3
<1>7. EveryTreeIsHistory'
  BY DEF TypeOK, EveryTreeIsHistory, Running, IsPrefixOfJournal
<1>8. OwnerHoldsItsPrefix'
  BY DEF TypeOK, OwnerHoldsItsPrefix, Running, IsPrefixOfJournal
<1>9. AckedSurvive' /\ RehydrationNeverBreaks'
  <2>1. ASSUME NEW a \in acked
        PROVE  a.sequence \in 1 .. n + 1 /\ journal'[a.sequence] = a
    <3>1. a.sequence \in 1 .. n /\ journal[a.sequence] = a
      BY DEF AckedSurvive
    <3>2. QED
      BY <3>1
  <2>2. QED
    BY <2>1 DEF AckedSurvive, RehydrationNeverBreaks
<1>10. QED
  BY <1>1, <1>2, <1>3, <1>4, <1>5, <1>6, <1>7, <1>8, <1>9

(* An Ok moves stream and tree together, one step along the journal. *)
LEMMA AdoptRecordStep ==
  ASSUME SafetyInv, NEW h \in Host, AdoptRecord(h)
  PROVE  SafetyInv'
<1> USE TreeAssumption DEF SafetyInv
<1> DEFINE r == pending[h].record
<1>a. /\ phase[h] = "waiting" /\ answer[h] = "ok" /\ pending[h].kind = "append"
      /\ phase' = [phase EXCEPT ![h] = "live"]
      /\ pending' = [pending EXCEPT ![h] = NoRequest]
      /\ answer' = [answer EXCEPT ![h] = "none"]
      /\ last' = [last EXCEPT ![h] = "ok"]
      /\ stream' = [stream EXCEPT ![h] = Append(stream[h], r)]
      /\ tree' = [tree EXCEPT ![h] = Apply(tree[h], r.op)]
      /\ acked' = acked \cup {r}
      /\ UNCHANGED <<owner, journal, checkpoint, wire, token, position, built>>
  BY DEF AdoptRecord, Return
<1>b. /\ stream[h] \in Seq(Record) /\ journal \in Seq(Record)
      /\ Len(stream[h]) < Len(journal)
      /\ journal[Len(stream[h]) + 1] = r
      /\ Apply(tree[h], r.op) \in Tree
      /\ Apply(tree[h], r.op) = built[Len(stream[h]) + 2]
      /\ r.sequence = Len(stream[h]) + 1
      /\ IsPrefixOfJournal(stream[h])
      /\ Len(built) = Len(journal) + 1
  <2>1. /\ stream[h] \in Seq(Record) /\ journal \in Seq(Record)
        /\ Len(built) = Len(journal) + 1
        /\ IsPrefixOfJournal(stream[h])
    BY <1>a DEF TypeOK, EveryTreeIsHistory, Running, BuiltIsFold
  <2>2. /\ r = NextRecord(stream[h], r.op, token[h])
        /\ Apply(tree[h], r.op) \in Tree
        /\ Len(stream[h]) < Len(journal)
        /\ journal[Len(stream[h]) + 1] = r
        /\ Apply(tree[h], r.op) = built[Len(stream[h]) + 2]
    BY <1>a DEF CallsFit
  <2>3. r.sequence = Len(stream[h]) + 1
    BY <2>2 DEF NextRecord
  <2>4. QED
    BY <2>1, <2>2, <2>3
<1>c. r \in Record
  BY <1>b
<1>d. IsPrefixOfJournal(stream'[h])
  <2>1. /\ stream'[h] = Append(stream[h], r)
        /\ journal' = journal
    BY <1>a DEF TypeOK
  <2>2. \A i \in 1 .. Len(stream[h]) + 1 : stream'[h][i] = journal[i]
    BY <1>b, <1>c, <2>1 DEF IsPrefixOfJournal
  <2>3. QED
    BY <1>b, <1>c, <2>1, <2>2 DEF IsPrefixOfJournal
<1> HIDE DEF r
<1> USE <1>a, <1>b, <1>c
<1>1. TypeOK'
  BY DEF TypeOK, Phase, Outcome, Activating, Running
<1>2. TokensFence'
  BY DEF TypeOK, TokensFence
<1>3. JournalIsChain' /\ JournalWriters' /\ BuiltIsFold' /\ CheckpointIsFold'
  BY DEF JournalIsChain, VerifyChain, JournalWriters, JournalByActivation,
         BuiltIsFold, CheckpointIsFold
<1>4. WritesFit'
  BY DEF WritesFit, Anchored, FoldsPrefix
<1>5. ActivationFits'
  BY DEF TypeOK, ActivationFits, Activating, IsPrefixOfJournal, TokensFence
<1>6. CallsFit'
  BY DEF TypeOK, CallsFit, NextRecord, ChainHead
<1>7. EveryTreeIsHistory'
  <2>1. ASSUME NEW g \in Host, phase'[g] \in Running
        PROVE  IsPrefixOfJournal(stream[g])' /\ \E i \in 1 .. Len(built) : tree'[g] = built[i]
    <3>1. CASE g = h
      <4>1. tree'[g] = built[Len(stream[h]) + 2] /\ Len(stream[h]) + 2 \in 1 .. Len(built)
        BY <3>1 DEF TypeOK
      <4>2. QED
        BY <1>d, <3>1, <4>1 DEF IsPrefixOfJournal
    <3>2. CASE g # h
      <4>1. stream'[g] = stream[g] /\ tree'[g] = tree[g] /\ phase'[g] = phase[g]
        BY <3>2 DEF TypeOK
      <4>2. QED
        BY <2>1, <4>1 DEF EveryTreeIsHistory, IsPrefixOfJournal
    <3>3. QED
      BY <3>1, <3>2
  <2>2. QED
    BY <2>1 DEF EveryTreeIsHistory
<1>8. OwnerHoldsItsPrefix'
  BY DEF TypeOK, OwnerHoldsItsPrefix, Running, IsPrefixOfJournal
<1>9. AckedSurvive' /\ RehydrationNeverBreaks'
  BY DEF TypeOK, AckedSurvive, RehydrationNeverBreaks
<1>10. QED
  BY <1>1, <1>2, <1>3, <1>4, <1>5, <1>6, <1>7, <1>8, <1>9

(* A stored checkpoint changes nothing the session holds. *)
LEMMA CheckpointStoredStep ==
  ASSUME SafetyInv, NEW h \in Host, CheckpointStored(h)
  PROVE  SafetyInv'
<1> USE TreeAssumption DEF SafetyInv, CheckpointStored, Return
<1>1. TypeOK'
  BY DEF TypeOK, Phase, Outcome, Activating, Running
<1>2. TokensFence'
  BY DEF TypeOK, TokensFence
<1>3. JournalIsChain' /\ JournalWriters' /\ BuiltIsFold' /\ CheckpointIsFold'
  BY DEF JournalIsChain, VerifyChain, JournalWriters, JournalByActivation,
         BuiltIsFold, CheckpointIsFold
<1>4. WritesFit'
  BY DEF WritesFit, Anchored, FoldsPrefix
<1>5. ActivationFits'
  BY DEF TypeOK, ActivationFits, Activating, IsPrefixOfJournal, TokensFence
<1>6. CallsFit'
  BY DEF TypeOK, CallsFit, NextRecord, ChainHead
<1>7. EveryTreeIsHistory'
  BY DEF TypeOK, EveryTreeIsHistory, Running, IsPrefixOfJournal
<1>8. OwnerHoldsItsPrefix'
  BY DEF TypeOK, OwnerHoldsItsPrefix, Running, IsPrefixOfJournal
<1>9. AckedSurvive' /\ RehydrationNeverBreaks'
  BY DEF TypeOK, AckedSurvive, RehydrationNeverBreaks
<1>10. QED
  BY <1>1, <1>2, <1>3, <1>4, <1>5, <1>6, <1>7, <1>8, <1>9

(* A refusal leaves stream and tree where they were. *)
LEMMA WriteRefusedStep ==
  ASSUME SafetyInv, NEW h \in Host, WriteRefused(h)
  PROVE  SafetyInv'
<1> USE TreeAssumption DEF SafetyInv, WriteRefused, Return
<1>1. TypeOK'
  BY DEF TypeOK, Phase, Outcome, Activating, Running
<1>2. TokensFence'
  BY DEF TypeOK, TokensFence
<1>3. JournalIsChain' /\ JournalWriters' /\ BuiltIsFold' /\ CheckpointIsFold'
  BY DEF JournalIsChain, VerifyChain, JournalWriters, JournalByActivation,
         BuiltIsFold, CheckpointIsFold
<1>4. WritesFit'
  BY DEF WritesFit, Anchored, FoldsPrefix
<1>5. ActivationFits'
  BY DEF TypeOK, ActivationFits, Activating, IsPrefixOfJournal, TokensFence
<1>6. CallsFit'
  BY DEF TypeOK, CallsFit, NextRecord, ChainHead
<1>7. EveryTreeIsHistory'
  BY DEF TypeOK, EveryTreeIsHistory, Running, IsPrefixOfJournal
<1>8. OwnerHoldsItsPrefix'
  BY DEF TypeOK, OwnerHoldsItsPrefix, Running, IsPrefixOfJournal
<1>9. AckedSurvive' /\ RehydrationNeverBreaks'
  BY DEF TypeOK, AckedSurvive, RehydrationNeverBreaks
<1>10. QED
  BY <1>1, <1>2, <1>3, <1>4, <1>5, <1>6, <1>7, <1>8, <1>9

(* A write that never landed leaves everything where it was. *)
LEMMA UnavailableStep ==
  ASSUME SafetyInv, NEW h \in Host, Unavailable(h)
  PROVE  SafetyInv'
<1> USE TreeAssumption DEF SafetyInv, Unavailable, Return
<1>1. TypeOK'
  BY DEF TypeOK, Phase, Outcome, Activating, Running
<1>2. TokensFence'
  BY DEF TypeOK, TokensFence
<1>3. JournalIsChain' /\ JournalWriters' /\ BuiltIsFold' /\ CheckpointIsFold'
  BY DEF JournalIsChain, VerifyChain, JournalWriters, JournalByActivation,
         BuiltIsFold, CheckpointIsFold
<1>4. WritesFit'
  BY DEF WritesFit, Anchored, FoldsPrefix
<1>5. ActivationFits'
  BY DEF TypeOK, ActivationFits, Activating, IsPrefixOfJournal, TokensFence
<1>6. CallsFit'
  BY DEF TypeOK, CallsFit, NextRecord, ChainHead
<1>7. EveryTreeIsHistory'
  BY DEF TypeOK, EveryTreeIsHistory, Running, IsPrefixOfJournal
<1>8. OwnerHoldsItsPrefix'
  BY DEF TypeOK, OwnerHoldsItsPrefix, Running, IsPrefixOfJournal
<1>9. AckedSurvive' /\ RehydrationNeverBreaks'
  BY DEF TypeOK, AckedSurvive, RehydrationNeverBreaks
<1>10. QED
  BY <1>1, <1>2, <1>3, <1>4, <1>5, <1>6, <1>7, <1>8, <1>9

(* A lost answer leaves the session on its prefix. *)
LEMMA LoseAnswerStep ==
  ASSUME SafetyInv, NEW h \in Host, LoseAnswer(h)
  PROVE  SafetyInv'
<1> USE TreeAssumption DEF SafetyInv, LoseAnswer, Return
<1>1. TypeOK'
  BY DEF TypeOK, Phase, Outcome, Activating, Running
<1>2. TokensFence'
  BY DEF TypeOK, TokensFence
<1>3. JournalIsChain' /\ JournalWriters' /\ BuiltIsFold' /\ CheckpointIsFold'
  BY DEF JournalIsChain, VerifyChain, JournalWriters, JournalByActivation,
         BuiltIsFold, CheckpointIsFold
<1>4. WritesFit'
  BY DEF WritesFit, Anchored, FoldsPrefix
<1>5. ActivationFits'
  BY DEF TypeOK, ActivationFits, Activating, IsPrefixOfJournal, TokensFence
<1>6. CallsFit'
  BY DEF TypeOK, CallsFit, NextRecord, ChainHead
<1>7. EveryTreeIsHistory'
  BY DEF TypeOK, EveryTreeIsHistory, Running, IsPrefixOfJournal
<1>8. OwnerHoldsItsPrefix'
  BY DEF TypeOK, OwnerHoldsItsPrefix, Running, IsPrefixOfJournal
<1>9. AckedSurvive' /\ RehydrationNeverBreaks'
  BY DEF TypeOK, AckedSurvive, RehydrationNeverBreaks
<1>10. QED
  BY <1>1, <1>2, <1>3, <1>4, <1>5, <1>6, <1>7, <1>8, <1>9

(* A step that changes nothing keeps the invariant. *)
LEMMA UnchangedStep ==
  ASSUME SafetyInv, UNCHANGED vars
  PROVE  SafetyInv'
<1> USE TreeAssumption DEF SafetyInv, vars
<1>1. TypeOK'
  BY DEF TypeOK, Phase, Outcome, Activating, Running
<1>2. TokensFence'
  BY DEF TypeOK, TokensFence
<1>3. JournalIsChain' /\ JournalWriters' /\ BuiltIsFold' /\ CheckpointIsFold'
  BY DEF JournalIsChain, VerifyChain, JournalWriters, JournalByActivation,
         BuiltIsFold, CheckpointIsFold
<1>4. WritesFit'
  BY DEF WritesFit, Anchored, FoldsPrefix
<1>5. ActivationFits'
  BY DEF TypeOK, ActivationFits, Activating, IsPrefixOfJournal, TokensFence
<1>6. CallsFit'
  BY DEF TypeOK, CallsFit, NextRecord, ChainHead
<1>7. EveryTreeIsHistory'
  BY DEF TypeOK, EveryTreeIsHistory, Running, IsPrefixOfJournal
<1>8. OwnerHoldsItsPrefix'
  BY DEF TypeOK, OwnerHoldsItsPrefix, Running, IsPrefixOfJournal
<1>9. AckedSurvive' /\ RehydrationNeverBreaks'
  BY DEF TypeOK, AckedSurvive, RehydrationNeverBreaks
<1>10. QED
  BY <1>1, <1>2, <1>3, <1>4, <1>5, <1>6, <1>7, <1>8, <1>9

(* Every step keeps the invariant. *)
LEMMA NextSafetyInv ==
  SafetyInv /\ [Next]_vars => SafetyInv'
<1> SUFFICES ASSUME SafetyInv, [Next]_vars
             PROVE  SafetyInv'
  OBVIOUS
<1>1. ASSUME NEW h \in Host, Activate(h)
      PROVE  SafetyInv'
  BY <1>1, AcquireStep, AcquireUnansweredStep, ReadJournalStep, ReadCheckpointStep,
     ReplayRecordStep, FinishActivationStep DEF Activate
<1>2. ASSUME NEW h \in Host, Call(h)
      PROVE  SafetyInv'
  BY <1>2, RefuseOpStep, ApplyOpStep, TakeCheckpointStep DEF Call
<1>3. ASSUME NEW h \in Host, CallReturns(h)
      PROVE  SafetyInv'
  BY <1>3, AdoptRecordStep, CheckpointStoredStep, WriteRefusedStep, UnavailableStep,
     LoseAnswerStep DEF CallReturns
<1>4. ASSUME NEW h \in Host, Evict(h)
      PROVE  SafetyInv'
  BY <1>4, ForgetStep DEF Evict
<1>5. ASSUME NEW q \in wire, Serve(q)
      PROVE  SafetyInv'
  BY <1>5, RefuseNotOwnerStep, RefuseDuplicateStep, AppendRecordStep, StoreCheckpointStep
     DEF Serve
<1>6. CASE UNCHANGED vars
  BY <1>6, UnchangedStep
<1>7. QED
  BY <1>1, <1>2, <1>3, <1>4, <1>5, <1>6 DEF Next

-----------------------------------------------------------------------------
(* The strengthening behind every safety theorem below, over both kinds of   *)
(* store.                                                                    *)
THEOREM SafetyInvariant == Spec => []SafetyInv
<1>1. Init => SafetyInv
  BY InitSafetyInv
<1>2. SafetyInv /\ [Next]_vars => SafetyInv'
  BY NextSafetyInv
<1>3. QED
  BY <1>1, <1>2, PTL DEF Spec

(* Every record the store holds, a stream carries or a write proposes is a   *)
(* well-formed record of edge/mod.rs, in every reachable state.              *)
THEOREM TypeCorrect == Spec => []TypeOK
<1>1. SafetyInv => TypeOK
  BY DEF SafetyInv
<1>2. QED
  BY <1>1, SafetyInvariant, PTL

(* No interleaving of activations, evictions and late writes leaves a        *)
(* journal that activate's verify_chain refuses.                             *)
THEOREM ChainAlwaysVerifies == Spec => []JournalIsChain
<1>1. SafetyInv => JournalIsChain
  BY DEF SafetyInv
<1>2. QED
  BY <1>1, SafetyInvariant, PTL

(* Every journal replays from the seed: activate's replay loop cannot meet   *)
(* an op that is refused.                                                    *)
THEOREM JournalAlwaysReplays == Spec => []JournalReplays
<1>1. SafetyInv => JournalReplays
  BY DEF SafetyInv, BuiltIsFold, JournalReplays
<1>2. QED
  BY <1>1, SafetyInvariant, PTL

(* The snapshot the store holds is the fold of the prefix it names, however  *)
(* late it landed.                                                           *)
THEOREM CheckpointAlwaysFolds == Spec => []CheckpointIsFold
<1>1. SafetyInv => CheckpointIsFold
  BY DEF SafetyInv
<1>2. QED
  BY <1>1, SafetyInvariant, PTL

(* The session whose token is newest holds a prefix of the journal and the   *)
(* tree of that prefix, whatever its store left unanswered.                  *)
THEOREM OwnerAlwaysOnItsPrefix == Spec => []OwnerHoldsItsPrefix
<1>1. SafetyInv => OwnerHoldsItsPrefix
  BY DEF SafetyInv
<1>2. QED
  BY <1>1, SafetyInvariant, PTL

(* A superseded session shows a tree the journal has passed through.         *)
THEOREM StaleSessionsShowHistory == Spec => []EveryTreeIsHistory
<1>1. SafetyInv => EveryTreeIsHistory
  BY DEF SafetyInv
<1>2. QED
  BY <1>1, SafetyInvariant, PTL

(* The fence lets one activation write at a time, in the order of tokens.    *)
THEOREM OneWriterAtATime == Spec => []JournalByActivation
<1>1. SafetyInv => JournalByActivation
  BY DEF SafetyInv, JournalWriters
<1>2. QED
  BY <1>1, SafetyInvariant, PTL

(* A record whose apply_op answered Ok is never lost, moved or replaced.     *)
THEOREM AcknowledgedIsDurable == Spec => []AckedSurvive
<1>1. SafetyInv => AckedSurvive
  BY DEF SafetyInv
<1>2. QED
  BY <1>1, SafetyInvariant, PTL

(* activate never fails with EdgeError::Chain or EdgeError::Replay.          *)
THEOREM ActivationNeverBreaks == Spec => []RehydrationNeverBreaks
<1>1. SafetyInv => RehydrationNeverBreaks
  BY DEF SafetyInv
<1>2. QED
  BY <1>1, SafetyInvariant, PTL

-----------------------------------------------------------------------------
(* The ops of the journal as a sequence, and what an append does to it.      *)
LEMMA OpsOfAppend ==
  ASSUME NEW records \in Seq(Record), NEW r \in Record
  PROVE  [i \in 1 .. Len(Append(records, r)) |-> Append(records, r)[i].op]
           = Append([i \in 1 .. Len(records) |-> records[i].op], r.op)
<1> DEFINE ops == [i \in 1 .. Len(records) |-> records[i].op]
<1>1. ops \in Seq(Op) /\ Len(ops) = Len(records)
  <2>1. \A i \in 1 .. Len(records) : records[i] \in Record
    OBVIOUS
  <2>2. \A i \in 1 .. Len(records) : records[i].op \in Op
    BY <2>1 DEF Record
  <2>3. QED
    BY <2>2
<1>2. QED
  BY <1>1 DEF Record

(* A record that passes the fence is one Commit of the history.              *)
LEMMA AppendIsCommit ==
  ASSUME SafetyInv, NEW q \in wire, AppendRecord(q)
  PROVE  History!Next
<1> DEFINE r == q.record
           t == built[Len(built)]
<1>1. q.kind = "append" /\ q.token = owner /\ q \in AppendRequest
  BY DEF AppendRecord, CheckOwner, SafetyInv, TypeOK, Request, CheckpointRequest
<1>2. r \in Record /\ r.op \in Op /\ Anchored(r)
  BY <1>1 DEF SafetyInv, WritesFit, AppendRequest, Record
<1>3. /\ journal \in Seq(Record) /\ built \in Seq(Tree \cup {NoTree})
      /\ Len(built) = Len(journal) + 1
  BY DEF SafetyInv, TypeOK, BuiltIsFold
<1>4. r.sequence = Len(journal) + 1
  <2>1. \A i \in 1 .. Len(journal) : journal[i].sequence = i
    BY DEF SafetyInv, JournalIsChain, VerifyChain
  <2>2. r.sequence \in 1 .. Len(journal) + 1
    BY <1>2 DEF Anchored
  <2>3. r.sequence \notin 1 .. Len(journal)
    BY <2>1 DEF AppendRecord, AlreadyJournaled
  <2>4. QED
    BY <1>3, <2>2, <2>3
<1>5. Apply(t, r.op) \in Tree
  BY <1>2, <1>3, <1>4 DEF Anchored
<1>6. /\ journal' = Append(journal, r)
      /\ built' = Append(built, Apply(t, r.op))
      /\ acked' = acked
  BY DEF AppendRecord, Reply
<1>7. built'[Len(built')] = Apply(t, r.op)
  BY <1>3, <1>5, <1>6
<1>8. [i \in 1 .. Len(journal') |-> journal'[i].op]
        = Append([i \in 1 .. Len(journal) |-> journal[i].op], r.op)
  BY <1>2, <1>3, <1>6, OpsOfAppend
<1>9. History!Commit(r.op)
  BY <1>5, <1>6, <1>7, <1>8 DEF History!Commit
<1>10. QED
  BY <1>2, <1>9 DEF History!Next

(* An Ok that reaches the caller is one Confirm of the history.              *)
LEMMA AdoptIsConfirm ==
  ASSUME SafetyInv, NEW h \in Host, AdoptRecord(h)
  PROVE  History!Next
<1> DEFINE r == pending[h].record
           n == Len(stream[h]) + 1
           ops == [i \in 1 .. Len(journal) |-> journal[i].op]
<1>1. /\ r = NextRecord(stream[h], r.op, token[h])
      /\ Len(stream[h]) < Len(journal)
  BY DEF AdoptRecord, SafetyInv, CallsFit
<1>2. r.sequence = n
  BY <1>1 DEF NextRecord
<1>3. n \in 1 .. Len(journal)
  BY <1>1 DEF SafetyInv, TypeOK
<1>4. Len(ops) = Len(journal)
  BY DEF SafetyInv, TypeOK
<1>5. acked' = acked \cup {r} /\ UNCHANGED <<journal, built>>
  BY DEF AdoptRecord
<1>6. {a.sequence : a \in acked'} = {a.sequence : a \in acked} \cup {n}
  BY <1>2, <1>5
<1> HIDE DEF n
<1>7. \E m \in 1 .. Len(ops) : History!Confirm(m)
  BY <1>3, <1>4, <1>5, <1>6 DEF History!Confirm
<1>8. QED
  BY <1>7 DEF History!Next

(* Every step of the session is a step of the history or invisible in it.    *)
LEMMA StepImplementsHistory ==
  SafetyInv /\ [Next]_vars => [History!Next]_(History!logVars)
<1> SUFFICES ASSUME SafetyInv, [Next]_vars
             PROVE  History!Next \/ UNCHANGED History!logVars
  OBVIOUS
<1>1. UNCHANGED <<journal, built, acked>> => UNCHANGED History!logVars
  BY DEF History!logVars
<1>2. ASSUME NEW h \in Host, Activate(h) \/ Call(h) \/ Evict(h)
      PROVE  UNCHANGED <<journal, built, acked>>
  BY <1>2 DEF Activate, Call, Evict, Acquire, AcquireUnanswered, ReadJournal,
     ReadCheckpoint, ReplayRecord, FinishActivation, RefuseOp, ApplyOp, TakeCheckpoint
<1>3. ASSUME NEW h \in Host, CallReturns(h)
      PROVE  AdoptRecord(h) \/ UNCHANGED <<journal, built, acked>>
  BY <1>3 DEF CallReturns, CheckpointStored, WriteRefused, Unavailable, LoseAnswer
<1>4. ASSUME NEW q \in wire, Serve(q)
      PROVE  AppendRecord(q) \/ UNCHANGED <<journal, built, acked>>
  BY <1>4 DEF Serve, RefuseNotOwner, RefuseDuplicate, StoreCheckpoint, Reply
<1>5. CASE UNCHANGED vars
  BY <1>1, <1>5 DEF vars
<1>6. QED
  BY <1>1, <1>2, <1>3, <1>4, <1>5, AppendIsCommit, AdoptIsConfirm DEF Next

(* The session with its store, activations, evictions and lost answers       *)
(* implements DurableLog: one history that only grows, of ops that applied,  *)
(* with confirmed positions inside it.                                       *)
THEOREM ImplementsDurableLog == Spec => IsDurableLog
<1>1. Init => History!Init
  BY DEF Init, History!Init
<1>2. SafetyInv /\ [Next]_vars => [History!Next]_(History!logVars)
  BY StepImplementsHistory
<1>3. QED
  BY <1>1, <1>2, SafetyInvariant, PTL DEF Spec, IsDurableLog, History!Spec

-----------------------------------------------------------------------------
(***************************************************************************)
(* A store that fails only definitely: each step keeps DefiniteInv.        *)
(***************************************************************************)

(* The old owner is fenced; the new one has not read yet. *)
LEMMA AcquireDefinite ==
  ASSUME SafetyInv, DefiniteInv, NEW h \in Host, Acquire(h)
  PROVE  DefiniteInv'
BY DEF Acquire, DefiniteInv, SafetyInv, TypeOK, TokensFence, ActivationFits,
   CallsFit, Activating, IsPrefixOfJournal, Forget

(* Reading moves no live session. *)
LEMMA ReadJournalDefinite ==
  ASSUME SafetyInv, DefiniteInv, NEW h \in Host, ReadJournal(h)
  PROVE  DefiniteInv'
BY DEF ReadJournal, DefiniteInv, SafetyInv, TypeOK, TokensFence, ActivationFits,
   CallsFit, Activating, IsPrefixOfJournal, Forget

(* Reading moves no live session. *)
LEMMA ReadCheckpointDefinite ==
  ASSUME SafetyInv, DefiniteInv, NEW h \in Host, ReadCheckpoint(h)
  PROVE  DefiniteInv'
BY DEF ReadCheckpoint, DefiniteInv, SafetyInv, TypeOK, TokensFence, ActivationFits,
   CallsFit, Activating, IsPrefixOfJournal, Forget

(* Replaying moves no live session. *)
LEMMA ReplayRecordDefinite ==
  ASSUME SafetyInv, DefiniteInv, NEW h \in Host, ReplayRecord(h)
  PROVE  DefiniteInv'
<1>1. /\ phase'[h] \in {"idle", "replaying"}
      /\ last'[h] # "corrupt" /\ answer'[h] # "corrupt"
  BY DEF ReplayRecord, Forget, SafetyInv, TypeOK, DefiniteInv
<1>2. \A g \in Host \ {h} :
        /\ phase'[g] = phase[g] /\ token'[g] = token[g] /\ stream'[g] = stream[g]
        /\ pending'[g] = pending[g] /\ answer'[g] = answer[g] /\ last'[g] = last[g]
  BY DEF ReplayRecord, Forget, SafetyInv, TypeOK
<1>3. UNCHANGED <<owner, journal, wire>>
  BY DEF ReplayRecord
<1>4. QED
  BY <1>1, <1>2, <1>3 DEF DefiniteInv

(* The new owner has replayed the whole journal, with nothing in flight. *)
LEMMA FinishActivationDefinite ==
  ASSUME SafetyInv, DefiniteInv, NEW h \in Host, FinishActivation(h)
  PROVE  DefiniteInv'
BY DEF FinishActivation, DefiniteInv, SafetyInv, TypeOK, TokensFence, ActivationFits,
   CallsFit, Activating, IsPrefixOfJournal, Forget

(* A refused op changes nothing. *)
LEMMA RefuseOpDefinite ==
  ASSUME SafetyInv, DefiniteInv, NEW h \in Host, NEW o \in Op, RefuseOp(h, o)
  PROVE  DefiniteInv'
BY DEF RefuseOp, DefiniteInv, SafetyInv, TypeOK, TokensFence, ActivationFits,
   CallsFit, Activating, IsPrefixOfJournal

(* The owner's write becomes the only one in flight. *)
LEMMA ApplyOpDefinite ==
  ASSUME SafetyInv, DefiniteInv, NEW h \in Host, NEW o \in Op, ApplyOp(h, o)
  PROVE  DefiniteInv'
BY DEF ApplyOp, DefiniteInv, SafetyInv, TypeOK, TokensFence, ActivationFits,
   CallsFit, Activating, IsPrefixOfJournal, Send

(* The owner's write becomes the only one in flight. *)
LEMMA TakeCheckpointDefinite ==
  ASSUME SafetyInv, DefiniteInv, NEW h \in Host, TakeCheckpoint(h)
  PROVE  DefiniteInv'
BY DEF TakeCheckpoint, DefiniteInv, SafetyInv, TypeOK, TokensFence, ActivationFits,
   CallsFit, Activating, IsPrefixOfJournal, Send

(* A fenced write is not the owner's. *)
LEMMA RefuseNotOwnerDefinite ==
  ASSUME SafetyInv, DefiniteInv, NEW q \in wire, RefuseNotOwner(q)
  PROVE  DefiniteInv'
BY DEF RefuseNotOwner, DefiniteInv, SafetyInv, TypeOK, TokensFence, ActivationFits,
   CallsFit, Activating, IsPrefixOfJournal, Reply, CheckOwner

(* A write that passes the fence is never a duplicate. *)
LEMMA RefuseDuplicateDefinite ==
  ASSUME SafetyInv, DefiniteInv, NEW q \in wire, RefuseDuplicate(q)
  PROVE  DefiniteInv'
<1>1. /\ q.token = owner /\ q.kind = "append" /\ AlreadyJournaled(q.record)
      /\ wire' = wire \ {q}
      /\ answer' = [g \in Host |-> IF pending[g] = q THEN "corrupt" ELSE answer[g]]
      /\ UNCHANGED <<owner, journal, phase, token, stream, pending, last>>
  BY DEF RefuseDuplicate, CheckOwner, Reply
<1>2. ASSUME NEW g \in Host, pending[g] = q
      PROVE  FALSE
  <2>1. q # NoRequest
    BY SentinelAssumption DEF SafetyInv, TypeOK
  <2>2. phase[g] = "waiting" /\ token[g] = owner
    BY <1>1, <1>2, <2>1 DEF SafetyInv, CallsFit
  <2>3. q.record = NextRecord(stream[g], q.record.op, owner) /\ stream[g] = journal
    BY <1>1, <1>2, <2>2 DEF SafetyInv, CallsFit, DefiniteInv
  <2>4. q.record.sequence = Len(journal) + 1
    BY <2>3 DEF NextRecord
  <2>5. \A i \in 1 .. Len(journal) : journal[i].sequence = i
    BY DEF SafetyInv, JournalIsChain, VerifyChain
  <2>6. Len(journal) \in Nat
    BY DEF SafetyInv, TypeOK
  <2>7. QED
    BY <1>1, <2>4, <2>5, <2>6 DEF AlreadyJournaled
<1>3. answer' = answer
  BY <1>1, <1>2 DEF SafetyInv, TypeOK
<1>4. QED
  BY <1>1, <1>3 DEF DefiniteInv

(* The owner's record makes the journal one longer than its stream. *)
LEMMA AppendRecordDefinite ==
  ASSUME SafetyInv, DefiniteInv, NEW q \in wire, AppendRecord(q)
  PROVE  DefiniteInv'
BY DEF AppendRecord, DefiniteInv, SafetyInv, TypeOK, TokensFence, ActivationFits,
   CallsFit, Activating, IsPrefixOfJournal, Reply, CheckOwner

(* A snapshot leaves the journal alone. *)
LEMMA StoreCheckpointDefinite ==
  ASSUME SafetyInv, DefiniteInv, NEW q \in wire, StoreCheckpoint(q)
  PROVE  DefiniteInv'
BY DEF StoreCheckpoint, DefiniteInv, SafetyInv, TypeOK, TokensFence, ActivationFits,
   CallsFit, Activating, IsPrefixOfJournal, Reply, CheckOwner

(* The owner catches up with the record it wrote. *)
LEMMA AdoptRecordDefinite ==
  ASSUME SafetyInv, DefiniteInv, NEW h \in Host, AdoptRecord(h)
  PROVE  DefiniteInv'
<1> DEFINE r == pending[h].record
<1>1. /\ phase[h] = "waiting" /\ answer[h] = "ok" /\ pending[h].kind = "append"
      /\ phase' = [phase EXCEPT ![h] = "live"]
      /\ pending' = [pending EXCEPT ![h] = NoRequest]
      /\ answer' = [answer EXCEPT ![h] = "none"]
      /\ last' = [last EXCEPT ![h] = "ok"]
      /\ stream' = [stream EXCEPT ![h] = Append(stream[h], r)]
      /\ UNCHANGED <<owner, journal, wire, token>>
  BY DEF AdoptRecord, Return
<1>2. ASSUME token[h] = owner
      PROVE  Append(stream[h], r) = journal
  <2>1. /\ stream[h] \in Seq(Record) /\ journal \in Seq(Record)
        /\ IsPrefixOfJournal(stream[h])
    BY <1>1 DEF SafetyInv, TypeOK, EveryTreeIsHistory, Running
  <2>2. journal[Len(stream[h]) + 1] = r
    BY <1>1 DEF SafetyInv, CallsFit
  <2>3. Len(journal) = Len(stream[h]) + 1
    BY <1>1, <1>2 DEF DefiniteInv
  <2>4. r \in Record
    BY <2>1, <2>2, <2>3
  <2>5. \A i \in 1 .. Len(journal) : Append(stream[h], r)[i] = journal[i]
    BY <2>1, <2>2, <2>3, <2>4 DEF IsPrefixOfJournal
  <2>6. Append(stream[h], r) \in Seq(Record) /\ Len(Append(stream[h], r)) = Len(journal)
    BY <2>1, <2>3, <2>4
  <2>7. QED
    BY <2>1, <2>5, <2>6
<1> HIDE DEF r
<1>3. QED
  BY <1>1, <1>2 DEF DefiniteInv, SafetyInv, TypeOK

(* A stored checkpoint leaves stream and journal alone. *)
LEMMA CheckpointStoredDefinite ==
  ASSUME SafetyInv, DefiniteInv, NEW h \in Host, CheckpointStored(h)
  PROVE  DefiniteInv'
BY DEF CheckpointStored, DefiniteInv, SafetyInv, TypeOK, TokensFence, ActivationFits,
   CallsFit, Activating, IsPrefixOfJournal, Return

(* Only a superseded session is refused. *)
LEMMA WriteRefusedDefinite ==
  ASSUME SafetyInv, DefiniteInv, NEW h \in Host, WriteRefused(h)
  PROVE  DefiniteInv'
BY DEF WriteRefused, DefiniteInv, SafetyInv, TypeOK, TokensFence, ActivationFits,
   CallsFit, Activating, IsPrefixOfJournal, Return

(* A write that never landed is no longer in flight. *)
LEMMA UnavailableDefinite ==
  ASSUME SafetyInv, DefiniteInv, NEW h \in Host, Unavailable(h)
  PROVE  DefiniteInv'
BY DEF Unavailable, DefiniteInv, SafetyInv, TypeOK, TokensFence, ActivationFits,
   CallsFit, Activating, IsPrefixOfJournal, Return

(* A forgotten host owns nothing. *)
LEMMA EvictDefinite ==
  ASSUME SafetyInv, DefiniteInv, NEW h \in Host, Evict(h)
  PROVE  DefiniteInv'
BY DEF Evict, DefiniteInv, SafetyInv, TypeOK, TokensFence, ActivationFits,
   CallsFit, Activating, IsPrefixOfJournal, Forget

(* Without ambiguous answers every step keeps DefiniteInv.                   *)
LEMMA NextDefiniteInv ==
  ASSUME ~AmbiguousStore, SafetyInv, DefiniteInv, [Next]_vars
  PROVE  DefiniteInv'
<1>1. ASSUME NEW h \in Host, Activate(h)
      PROVE  DefiniteInv'
  BY <1>1, AcquireDefinite, ReadJournalDefinite, ReadCheckpointDefinite,
     ReplayRecordDefinite, FinishActivationDefinite DEF Activate, AcquireUnanswered
<1>2. ASSUME NEW h \in Host, Call(h)
      PROVE  DefiniteInv'
  BY <1>2, RefuseOpDefinite, ApplyOpDefinite, TakeCheckpointDefinite DEF Call
<1>3. ASSUME NEW h \in Host, CallReturns(h)
      PROVE  DefiniteInv'
  BY <1>3, AdoptRecordDefinite, CheckpointStoredDefinite, WriteRefusedDefinite,
     UnavailableDefinite DEF CallReturns, LoseAnswer
<1>4. ASSUME NEW h \in Host, Evict(h)
      PROVE  DefiniteInv'
  BY <1>4, EvictDefinite
<1>5. ASSUME NEW q \in wire, Serve(q)
      PROVE  DefiniteInv'
  BY <1>5, RefuseNotOwnerDefinite, RefuseDuplicateDefinite, AppendRecordDefinite,
     StoreCheckpointDefinite DEF Serve
<1>6. CASE UNCHANGED vars
  BY <1>6 DEF vars, DefiniteInv
<1>7. QED
  BY <1>1, <1>2, <1>3, <1>4, <1>5, <1>6 DEF Next

(* The strengthening behind the two theorems below.                          *)
THEOREM DefiniteInvariant == ~AmbiguousStore => (Spec => []DefiniteInv)
<1> SUFFICES ASSUME ~AmbiguousStore
             PROVE  Spec => []DefiniteInv
  OBVIOUS
<1>1. Init => DefiniteInv
  BY DEF Init, DefiniteInv
<1>2. SafetyInv /\ DefiniteInv /\ [Next]_vars => DefiniteInv'
  BY NextDefiniteInv
<1>3. QED
  BY <1>1, <1>2, SafetyInvariant, PTL DEF Spec

(* EdgeError::Store: with definite failures the newest session is exactly    *)
(* its journal whenever it is not in a call.                                 *)
THEOREM OwnerIsAlwaysItsJournal == ~AmbiguousStore => (Spec => []OwnerIsItsJournal)
<1> SUFFICES ASSUME ~AmbiguousStore
             PROVE  Spec => []OwnerIsItsJournal
  OBVIOUS
<1>1. SafetyInv /\ DefiniteInv => OwnerIsItsJournal
  BY DEF SafetyInv, DefiniteInv, OwnerIsItsJournal, OwnerHoldsItsPrefix, Running,
         BuiltIsFold
<1>2. QED
  BY <1>1, SafetyInvariant, DefiniteInvariant, PTL

(* StoreError::Unavailable: with definite failures a retry is safe, no       *)
(* caller is ever told its sequence is already journaled.                    *)
THEOREM RetryIsNeverCorrupt == ~AmbiguousStore => (Spec => []NoOwnerIsCorrupt)
<1> SUFFICES ASSUME ~AmbiguousStore
             PROVE  Spec => []NoOwnerIsCorrupt
  OBVIOUS
<1>1. DefiniteInv => NoOwnerIsCorrupt
  BY DEF DefiniteInv, NoOwnerIsCorrupt
<1>2. QED
  BY <1>1, DefiniteInvariant, PTL

(* Both: over such a store the next sequence of a live owner is always free. *)
THEOREM RetryIsAlwaysSafe == ~AmbiguousStore => (Spec => []RetryIsSafe)
<1>1. OwnerIsItsJournal /\ NoOwnerIsCorrupt => RetryIsSafe
  BY DEF RetryIsSafe
<1>2. QED
  BY <1>1, OwnerIsAlwaysItsJournal, RetryIsNeverCorrupt, PTL
=============================================================================
