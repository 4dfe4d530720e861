------------------------ MODULE BoundedProgramProofs ------------------------
(* Continuations run only for questions that were asked, for every tree,      *)
(* dispatch policy, store and sequence of events: there the fold stays opaque,*)
(* and of its effects only the set of questions among them matters.  What an  *)
(* event may reach, and what the readers show, takes the fold leaf by leaf.   *)
EXTENDS BoundedProgram, TLAPS

\* What the questions pending, their askings and their answers are.
QuestionsOK ==
  /\ pending \subseteq Questions
  /\ asked \in [Questions -> Nat]
  /\ answers \in [Questions -> Nat]

QuestionInv == QuestionsOK /\ OneAnswerPerAsking

\* A question a fold asked has been asked once more, every other as often.
LEMMA AskedCounts ==
  ASSUME NEW e, NEW standing, FoldOver(e, standing), QuestionsOK,
         standing \subseteq Questions
  PROVE  /\ asked' \in [Questions -> Nat]
         /\ pending' \subseteq Questions
         /\ \A q \in Questions :
              /\ q \in pending' => q \in standing \/ asked'[q] = asked[q] + 1
              /\ asked[q] <= asked'[q]
<1> DEFINE asks == AskedBy(Fold(Reached(e), store, e.payload).effects)
<1>1. asks \subseteq Questions
  BY DEF AskedBy
<1>2. asked' = [q \in Questions |-> IF q \in asks THEN asked[q] + 1 ELSE asked[q]]
  BY DEF FoldOver
<1>3. pending' = standing \cup asks
  BY DEF FoldOver
<1> HIDE DEF asks
<1> QED BY <1>1, <1>2, <1>3 DEF QuestionsOK

\* Before any event nothing has been asked.
LEMMA QuestionInit == Init => QuestionInv
BY DEF Init, QuestionInv, QuestionsOK, OneAnswerPerAsking

\* No event, admitted or refused, breaks the invariant.
LEMMA QuestionStep == ProgramAssumption /\ QuestionInv /\ [Next]_vars => QuestionInv'
<1> SUFFICES ASSUME ProgramAssumption, QuestionInv, [Next]_vars PROVE QuestionInv'
  OBVIOUS
<1> USE DEF QuestionInv
<1>1. CASE UNCHANGED vars
  BY <1>1 DEF vars, QuestionsOK, OneAnswerPerAsking
<1>2. ASSUME NEW e \in Events, HandleEvent(e) PROVE QuestionInv'
  <2>1. CASE Refuse(e)
    BY <2>1 DEF Refuse, QuestionsOK, OneAnswerPerAsking
  <2>2. CASE Ignore(e)
    BY <2>2 DEF Ignore, QuestionsOK, OneAnswerPerAsking
  <2>3. CASE RunGesture(e)
    <3>1. FoldOver(e, {}) /\ UNCHANGED answers
      BY <2>3 DEF RunGesture, StandingAtGesture
    <3>2. QuestionsOK'
      BY <3>1, AskedCounts DEF QuestionsOK
    <3>3. ASSUME NEW q \in Questions
          PROVE  answers'[q] + (IF q \in pending' THEN 1 ELSE 0) <= asked'[q]
      <4>1. answers[q] \in Nat /\ answers[q] <= asked[q] /\ asked[q] \in Nat
        BY DEF QuestionsOK, OneAnswerPerAsking
      <4>2. /\ q \in pending' => asked'[q] = asked[q] + 1
            /\ asked[q] <= asked'[q]
        BY <3>1, AskedCounts
      <4>3. answers'[q] = answers[q] /\ asked'[q] \in Nat
        BY <3>1, <3>2 DEF QuestionsOK
      <4>4. CASE q \in pending'
        BY <4>1, <4>2, <4>3, <4>4
      <4>5. CASE q \notin pending'
        BY <4>1, <4>2, <4>3, <4>5
      <4> QED BY <4>4, <4>5
    <3> QED BY <3>2, <3>3 DEF OneAnswerPerAsking
  <2>4. CASE RunAnswer(e)
    <3> DEFINE t == e.answer.token
    <3>1. /\ FoldOver(e, pending \ {t})
          /\ t \in pending
          /\ answers' = [answers EXCEPT ![t] = @ + 1]
      BY <2>4 DEF RunAnswer, StandingAtAnswer, IsAdmitted, AnswerAdmitted
    <3>2. t \in Questions /\ pending \ {t} \subseteq Questions
      BY <3>1 DEF QuestionsOK
    <3>3. QuestionsOK'
      <4>1. asked' \in [Questions -> Nat] /\ pending' \subseteq Questions
        BY <3>1, <3>2, AskedCounts
      <4>2. answers[t] + 1 \in Nat
        BY <3>2 DEF QuestionsOK
      <4>3. answers' \in [Questions -> Nat]
        BY <3>1, <4>2 DEF QuestionsOK
      <4> QED BY <4>1, <4>3 DEF QuestionsOK
    <3>4. ASSUME NEW q \in Questions
          PROVE  answers'[q] + (IF q \in pending' THEN 1 ELSE 0) <= asked'[q]
      <4>1. /\ answers[q] \in Nat /\ asked[q] \in Nat
            /\ answers[q] + (IF q \in pending THEN 1 ELSE 0) <= asked[q]
        BY DEF QuestionsOK, OneAnswerPerAsking
      <4>2. /\ q \in pending' => q \in pending \ {t} \/ asked'[q] = asked[q] + 1
            /\ asked[q] <= asked'[q]
        BY <3>1, <3>2, AskedCounts
      <4>3. answers'[q] = IF q = t THEN answers[q] + 1 ELSE answers[q]
        BY <3>1, <3>2 DEF QuestionsOK
      <4>4. CASE q = t
        <5>1. answers'[q] = answers[q] + 1
          BY <4>3, <4>4
        <5>2. q \in pending' => asked'[q] = asked[q] + 1
          BY <4>2, <4>4
        <5>3. answers[q] + 1 <= asked[q] /\ asked[q] <= asked'[q] /\ asked'[q] \in Nat
          BY <4>1, <4>2, <4>4, <3>1, <3>3 DEF QuestionsOK
        <5>4. CASE q \in pending'
          BY <5>1, <5>2, <5>3, <5>4, <4>1
        <5>5. CASE q \notin pending'
          BY <5>1, <5>3, <5>5, <4>1
        <5> QED BY <5>4, <5>5
      <4>5. CASE q # t
        <5>1. answers'[q] = answers[q] /\ asked'[q] \in Nat
          BY <4>3, <4>5, <3>3 DEF QuestionsOK
        <5> DEFINE open  == IF q \in pending THEN 1 ELSE 0
                   open2 == IF q \in pending' THEN 1 ELSE 0
                   n     == answers[q]
        <5>2. open \in {0, 1} /\ n + open <= asked[q] /\ n \in Nat /\ asked[q] \in Nat
          BY <4>1
        <5>3. open2 = 0 \/ (open2 = 1 /\ (open = 1 \/ asked'[q] = asked[q] + 1))
          BY <4>2
        <5>4. asked[q] <= asked'[q]
          BY <4>2
        <5> HIDE DEF open, open2, n
        <5>5. n + open2 <= asked'[q]
          BY <5>1, <5>2, <5>3, <5>4
        <5> QED BY <5>1, <5>5 DEF open2, n
      <4> QED BY <4>4, <4>5
    <3> QED BY <3>3, <3>4 DEF OneAnswerPerAsking
  <2> QED BY <1>2, <2>1, <2>2, <2>3, <2>4 DEF HandleEvent
<1> QED BY <1>1, <1>2 DEF Next

\* Whatever the tree, the policy and the events, a question is answered at most
\* once for each time handle_event asked it, and a pending one is not answered.
THEOREM AnswersNeedAskings == Spec => []OneAnswerPerAsking
<1>1. QuestionInv => OneAnswerPerAsking
  BY DEF QuestionInv
<1> QED BY <1>1, QuestionInit, QuestionStep, ProgramAssumption, PTL DEF Spec

----------------------------------------------------------------------------
\* The fold of an action, leaf by leaf.
LeafStep(payload, acc, leaf) == FoldLeaf(acc, leaf, payload)
ActionFold == INSTANCE SequenceFolds WITH Op <- LeafStep

Start(st) == [store |-> st, effects |-> <<>>]

\* The model's fold over leaves is the fold of SequenceFolds.
LEMMA FoldIsFold ==
  \A leaves, st, payload : Fold(leaves, st, payload) = ActionFold!FoldOf(payload, Start(st), leaves)
BY Zenon DEF Fold, Start, ActionFold!FoldOf, LeafStep, FoldLeft, MapThenFoldSet, Max,
             ActionFold!FoldLeft, ActionFold!MapThenFoldSet, ActionFold!Max

Stores == [Keys -> Slot]

\* A store and the effects so far, whose questions are among Q.
Outcome(Q) == [store : Stores, effects : Seq({"effect"} \cup Q)]

\* What a binding resolves to is a value or nothing.
LEMMA ResolveType ==
  ASSUME NEW st \in Stores, NEW b \in Binding
  PROVE  Resolve(st, b) \in Slot
BY DEF Resolve, Binding, Stores

\* Assigning a slot keeps the store a store.
LEMMA AssignType ==
  ASSUME NEW st \in Stores, NEW k, NEW v \in Slot
  PROVE  Assign(st, k, v) \in Stores
BY DEF Assign, Stores

\* What a commit flushes is a value, or nothing.
LEMMA FlushedType ==
  ASSUME NEW f \in Fields, NEW payload \in Payload
  PROVE  FlushedValue(f, payload) \in Slot
BY ProgramAssumption DEF FlushedValue, Payload, Slot

\* A leaf adds at most one effect: its question, if it is one, or one that asks nothing.
LEMMA LeafType ==
  ASSUME NEW Q, NEW acc \in Outcome(Q), NEW leaf \in Leaf, NEW payload \in Payload,
         leaf.op = "ask" => leaf.question \in Q
  PROVE  /\ LeafStep(payload, acc, leaf) \in Outcome(Q)
         /\ Len(LeafStep(payload, acc, leaf).effects) <= Len(acc.effects) + 1
<1>1. /\ acc.store \in Stores /\ acc.effects \in Seq({"effect"} \cup Q)
      /\ acc = [store |-> acc.store, effects |-> acc.effects] /\ Len(acc.effects) \in Nat
  BY DEF Outcome
<1>2. ASSUME NEW st \in Stores
      PROVE  /\ [acc EXCEPT !.store = st] \in Outcome(Q)
             /\ [acc EXCEPT !.store = st].effects = acc.effects
  BY <1>1 DEF Outcome
<1>3. ASSUME NEW x \in {"effect"} \cup Q
      PROVE  Emit(acc, x) \in Outcome(Q) /\ Len(Emit(acc, x).effects) = Len(acc.effects) + 1
  BY <1>1 DEF Emit, Outcome
<1>4. Len(acc.effects) <= Len(acc.effects) + 1
  BY <1>1
<1>5. CASE leaf.op = "set"
  <2>1. leaf.value \in Slot
    BY <1>5 DEF Leaf
  <2>2. Assign(acc.store, leaf.key, leaf.value) \in Stores
    BY <1>1, <2>1, AssignType
  <2> QED
    BY <1>2, <1>4, <1>5, <2>2 DEF LeafStep, FoldLeaf
<1>6. CASE leaf.op = "copy"
  <2>1. leaf.from \in Binding
    BY <1>6 DEF Leaf
  <2>2. Assign(acc.store, leaf.key, Resolve(acc.store, leaf.from)) \in Stores
    BY <1>1, <2>1, AssignType, ResolveType
  <2> QED
    BY <1>2, <1>4, <1>6, <2>2 DEF LeafStep, FoldLeaf
<1>7. CASE leaf.op = "commit"
  <2>1. leaf.field \in Fields
    BY <1>7 DEF Leaf
  <2>2. Assign(acc.store, CommitTo[leaf.field], FlushedValue(leaf.field, payload)) \in Stores
    BY <1>1, <2>1, AssignType, FlushedType
  <2> QED
    BY <1>2, <1>4, <1>7, <2>2 DEF LeafStep, FoldLeaf
<1>8. CASE leaf.op = "emit"
  BY <1>3, <1>4, <1>8 DEF LeafStep, FoldLeaf
<1>9. CASE leaf.op = "go"
  BY <1>3, <1>4, <1>9 DEF LeafStep, FoldLeaf
<1>10. CASE leaf.op = "ask"
  BY <1>3, <1>4, <1>10 DEF LeafStep, FoldLeaf
<1>11. CASE leaf.op \notin {"set", "copy", "commit", "emit", "go", "ask"}
  BY <1>4, <1>11 DEF LeafStep, FoldLeaf
<1> QED
  BY <1>5, <1>6, <1>7, <1>8, <1>9, <1>10, <1>11

\* A leaf writes a slot k.
Writes(leaf, k, payload) ==
  \/ leaf.op \in {"set", "copy"} /\ leaf.key = k
  \/ leaf.op = "commit" /\ CommitTo[leaf.field] = k /\ FlushedValue(leaf.field, payload) # Absent

\* An assignment spares every slot but its own, and those the gates keep.
LEMMA AssignSpares ==
  ASSUME NEW st \in Stores, NEW k \in Keys, NEW j, NEW v, j = k => k \in Reserved
  PROVE  Assign(st, j, v)[k] = st[k]
BY DEF Assign, Stores

\* A slot of the host's, or one no leaf writes, is left as it was.
LEMMA LeafSpares ==
  ASSUME NEW Q, NEW acc \in Outcome(Q), NEW leaf \in Leaf, NEW payload, NEW k \in Keys,
         Writes(leaf, k, payload) => k \in Reserved
  PROVE  LeafStep(payload, acc, leaf).store[k] = acc.store[k]
<1>1. acc.store \in Stores /\ acc = [store |-> acc.store, effects |-> acc.effects]
  BY DEF Outcome
<1>2. \A x : Emit(acc, x).store = acc.store
  BY <1>1 DEF Emit
<1>3. \A st : [acc EXCEPT !.store = st].store = st
  BY <1>1
<1>4. CASE leaf.op \in {"set", "copy"}
  <2>1. leaf.key = k => k \in Reserved
    BY <1>4 DEF Writes
  <2>2. \A v : Assign(acc.store, leaf.key, v)[k] = acc.store[k]
    BY <1>1, <2>1, AssignSpares
  <2> QED
    BY <1>3, <1>4, <2>2 DEF LeafStep, FoldLeaf
<1>5. CASE leaf.op = "commit"
  <2>1. CASE FlushedValue(leaf.field, payload) = Absent
    BY <1>5, <2>1 DEF LeafStep, FoldLeaf
  <2>2. CASE FlushedValue(leaf.field, payload) # Absent
    <3>1. CommitTo[leaf.field] = k => k \in Reserved
      BY <1>5, <2>2 DEF Writes
    <3>2. \A v : Assign(acc.store, CommitTo[leaf.field], v)[k] = acc.store[k]
      BY <1>1, <3>1, AssignSpares
    <3> QED
      BY <1>3, <1>5, <2>2, <3>2 DEF LeafStep, FoldLeaf
  <2> QED
    BY <2>1, <2>2
<1>6. CASE leaf.op \notin {"set", "copy", "commit"}
  BY <1>2, <1>6 DEF LeafStep, FoldLeaf
<1> QED
  BY <1>4, <1>5, <1>6

\* A fold starts from a state of the fold.
LEMMA StartType == ASSUME NEW st \in Stores, NEW Q PROVE Start(st) \in Outcome(Q)
BY DEF Start, Outcome

\* What a fold makes of a store: another, and effects among the questions of its
\* leaves.
LEMMA FoldType ==
  ASSUME NEW st \in Stores, NEW payload \in Payload, NEW leaves \in Seq(Leaf), NEW Q,
         \A i \in DOMAIN leaves : leaves[i].op = "ask" => leaves[i].question \in Q
  PROVE  Fold(leaves, st, payload) \in Outcome(Q)
<1> DEFINE Among == {leaf \in Leaf : leaf.op = "ask" => leaf.question \in Q}
<1>1. leaves \in Seq(Among)
  OBVIOUS
<1>2. \A acc \in Outcome(Q), leaf \in Among : LeafStep(payload, acc, leaf) \in Outcome(Q)
  BY LeafType
<1>3. Start(st) \in Outcome(Q)
  BY StartType
<1> HIDE DEF Among
<1>4. \A s \in Seq(Among) : ActionFold!FoldOf(payload, Start(st), s) \in Outcome(Q)
  BY <1>2, <1>3, ActionFold!FoldType
<1> QED
  BY <1>1, <1>4, FoldIsFold

\* A fold has no more effects than leaves.
LEMMA FoldLength ==
  ASSUME NEW st \in Stores, NEW payload \in Payload, NEW leaves \in Seq(Leaf)
  PROVE  Len(Fold(leaves, st, payload).effects) <= Len(leaves)
<1> DEFINE F(s) == ActionFold!FoldOf(payload, Start(st), s)
           T == {s \in Seq(Leaf) : F(s) \in Outcome(Questions) /\ Len(F(s).effects) <= Len(s)}
<1>1. <<>> \in T
  <2>1. F(<<>>) = Start(st) /\ Start(st) \in Outcome(Questions) /\ <<>> \in Seq(Leaf)
    BY ActionFold!FoldEmpty, StartType
  <2>2. Len(Start(st).effects) = 0 /\ Len(<<>>) = 0
    BY DEF Start
  <2> HIDE DEF F
  <2> QED
    BY <2>1, <2>2
<1>2. ASSUME NEW s \in T, NEW leaf \in Leaf
      PROVE  Append(s, leaf) \in T
  <2>1. s \in Seq(Leaf) /\ Append(s, leaf) \in Seq(Leaf) /\ Len(Append(s, leaf)) = Len(s) + 1
    OBVIOUS
  <2>2. F(Append(s, leaf)) = LeafStep(payload, F(s), leaf)
    BY <2>1, ActionFold!FoldAppend
  <2>3. F(s) \in Outcome(Questions) /\ Len(F(s).effects) <= Len(s)
    OBVIOUS
  <2>4. leaf.op = "ask" => leaf.question \in Questions
    BY DEF Leaf
  <2> HIDE DEF F
  <2>5. /\ F(Append(s, leaf)) \in Outcome(Questions)
        /\ Len(F(Append(s, leaf)).effects) <= Len(F(s).effects) + 1
    BY <2>2, <2>3, <2>4, LeafType
  <2>6. /\ Len(F(s).effects) \in Nat /\ Len(F(Append(s, leaf)).effects) \in Nat
        /\ Len(s) \in Nat
    BY <2>1, <2>3, <2>5 DEF Outcome
  <2>7. Len(F(Append(s, leaf)).effects) <= Len(Append(s, leaf))
    BY <2>1, <2>3, <2>5, <2>6
  <2> QED
    BY <2>1, <2>5, <2>7
<1> HIDE DEF T
<1>3. T = Seq(Leaf)
  <2>1. T \in SUBSET Seq(Leaf)
    BY DEF T
  <2> QED
    BY <1>1, <1>2, <2>1, ActionFold!SeqSetInduction
<1>4. leaves \in T
  BY <1>3
<1> QED
  BY <1>4, FoldIsFold DEF T

\* A fold leaves alone the slots none of its leaves may write.
LEMMA FoldSpares ==
  ASSUME NEW st \in Stores, NEW payload \in Payload, NEW leaves \in Seq(Leaf), NEW k \in Keys,
         \A i \in 1 .. Len(leaves) : Writes(leaves[i], k, payload) => k \in Reserved
  PROVE  Fold(leaves, st, payload).store[k] = st[k]
<1> DEFINE Sparing == {leaf \in Leaf : Writes(leaf, k, payload) => k \in Reserved}
           Spared == {acc \in Outcome(Questions) : acc.store[k] = st[k]}
<1>1. leaves \in Seq(Sparing)
  OBVIOUS
<1>2. ASSUME NEW acc \in Spared, NEW leaf \in Sparing
      PROVE  LeafStep(payload, acc, leaf) \in Spared
  <2>1. leaf.op = "ask" => leaf.question \in Questions
    BY DEF Leaf
  <2> QED
    BY <2>1, LeafType, LeafSpares
<1>3. Start(st) \in Spared
  BY StartType DEF Start
<1> HIDE DEF Sparing, Spared
<1>4. \A s \in Seq(Sparing) : ActionFold!FoldOf(payload, Start(st), s) \in Spared
  BY <1>2, <1>3, ActionFold!FoldType
<1> QED
  BY <1>1, <1>4, FoldIsFold DEF Spared

----------------------------------------------------------------------------

\* An event carries a payload, and an answer carries one if it answers at all.
LEMMA EventType ==
  ASSUME NEW e \in Events
  PROVE  /\ e.payload \in Payload
         /\ e.answer # NoAnswer => e.answer \in Answer /\ e.answer.accepted \in BOOLEAN
BY DEF Events, Answer

\* What an admitted event reaches are the leaves of a gesture or of a
\* continuation, or nothing.
LEMMA ReachedIsLeaves ==
  ASSUME NEW e \in Events, IsAdmitted(e), e.answer # NoAnswer => e.answer.token \in Questions
  PROVE  /\ Reached(e) \in Seq(Leaf)
         /\ \/ Reached(e) = <<>>
            \/ /\ e.answer = NoAnswer /\ Gesture[e.node] # NoAction
               /\ Reached(e) = Gesture[e.node] /\ e.node \in Nodes
            \/ /\ e.answer # NoAnswer /\ Branch[e.answer.token][e.answer.accepted] # NoAction
               /\ Reached(e) = Branch[e.answer.token][e.answer.accepted]
<1>1. e.node \in Nodes /\ Gesture[e.node] # NoAction
  BY DEF IsAdmitted, Valid
<1>2. CASE e.answer = NoAnswer
  <2>1. Reached(e) = Gesture[e.node]
    BY <1>2 DEF Reached
  <2>2. Gesture[e.node] \in {NoAction} \cup Seq(Leaf)
    BY <1>1, ActionAssumption
  <2> QED
    BY <1>1, <1>2, <2>1, <2>2
<1>3. CASE e.answer # NoAnswer
  <2> DEFINE b == Branch[e.answer.token][e.answer.accepted]
  <2>1. b \in {NoAction} \cup Seq(Leaf)
    <3>1. e.answer.token \in Questions /\ e.answer.accepted \in BOOLEAN
      BY <1>3, EventType
    <3> QED
      BY <3>1, ActionAssumption
  <2>2. Reached(e) = IF b = NoAction THEN <<>> ELSE b
    BY <1>3 DEF Reached
  <2>3. <<>> \in Seq(Leaf)
    OBVIOUS
  <2> QED
    BY <1>3, <2>1, <2>2, <2>3
<1> QED
  BY <1>2, <1>3

\* The writes of an action are among Written.
LEMMA WrittenByAction ==
  ASSUME NEW leaves \in Actions, NEW i \in DOMAIN leaves, leaves[i].op \in {"set", "copy"}
  PROVE  leaves[i].key \in Written
<1>1. leaves[i].key \in WrittenBy(leaves)
  BY DEF WrittenBy
<1> QED
  BY <1>1 DEF Written

\* A slot outside the policy that no leaf of the tree sets is not written.
LEMMA ReachedSpares ==
  ASSUME NEW e \in Events, IsAdmitted(e), e.answer # NoAnswer => e.answer.token \in Questions,
         NEW k \in Keys, k \in Reserved \/ k \notin MayWrite \cup Written
  PROVE  \A i \in 1 .. Len(Reached(e)) : Writes(Reached(e)[i], k, e.payload) => k \in Reserved
<1> SUFFICES ASSUME k \notin MayWrite \cup Written, NEW i \in 1 .. Len(Reached(e)),
                    Writes(Reached(e)[i], k, e.payload)
             PROVE  FALSE
  OBVIOUS
<1> DEFINE leaf == Reached(e)[i]
<1>1. i \in DOMAIN Reached(e) /\ Reached(e) # <<>>
  BY ReachedIsLeaves
<1>2. CASE leaf.op \in {"set", "copy"}
  <2>1. leaf.key = k
    BY <1>2 DEF Writes
  <2>2. leaf.key \in Written
    <3>1. CASE e.answer = NoAnswer
      <4>1. Gesture[e.node] # NoAction /\ Reached(e) = Gesture[e.node] /\ e.node \in Nodes
        BY <1>1, <3>1, ReachedIsLeaves
      <4> QED
        BY <1>1, <1>2, <4>1, WrittenByAction DEF Actions
    <3>2. CASE e.answer # NoAnswer
      <4>1. /\ Branch[e.answer.token][e.answer.accepted] # NoAction
            /\ Reached(e) = Branch[e.answer.token][e.answer.accepted]
            /\ e.answer.token \in Questions /\ e.answer.accepted \in BOOLEAN
        BY <1>1, <3>2, ReachedIsLeaves, EventType
      <4> QED
        BY <1>1, <1>2, <4>1, WrittenByAction DEF Actions
    <3> QED
      BY <3>1, <3>2
  <2> QED
    BY <2>1, <2>2
<1>3. CASE leaf.op \notin {"set", "copy"}
  <2>1. /\ leaf.op = "commit" /\ CommitTo[leaf.field] = k
        /\ FlushedValue(leaf.field, e.payload) # Absent
    BY <1>3 DEF Writes
  <2>2. CommitTo[leaf.field] \in CommitWrites(Reached(e), e.payload)
    BY <1>1, <2>1 DEF CommitWrites
  <2> QED
    BY <2>1, <2>2 DEF IsAdmitted, WritesAdmitted
<1> QED
  BY <1>2, <1>3

\* The questions a fold of these leaves asks are asked by one of them.
LEMMA AskedByLeaves ==
  ASSUME NEW st \in Stores, NEW payload \in Payload, NEW leaves \in Seq(Leaf)
  PROVE  AskedBy(Fold(leaves, st, payload).effects)
           \subseteq {leaves[i].question : i \in {j \in DOMAIN leaves : leaves[j].op = "ask"}}
<1> DEFINE Q == {leaves[i].question : i \in {j \in DOMAIN leaves : leaves[j].op = "ask"}}
           effects == Fold(leaves, st, payload).effects
<1>1. \A i \in DOMAIN leaves : leaves[i].op = "ask" => leaves[i].question \in Q
  OBVIOUS
<1> HIDE DEF Q
<1>2. effects \in Seq({"effect"} \cup Q)
  BY <1>1, FoldType DEF Outcome
<1>3. SUFFICES ASSUME NEW q \in AskedBy(effects)
               PROVE  q \in Q
  BY DEF Q
<1>4. q \in Questions /\ \E i \in DOMAIN effects : effects[i] = q
  BY <1>3 DEF AskedBy
<1> HIDE DEF effects
<1>5. q \in {"effect"} \cup Q
  BY <1>2, <1>4
<1> QED
  BY <1>4, <1>5, ActionAssumption

----------------------------------------------------------------------------
\* What the readers show.
LEMMA ReaderIsBinding ==
  \A r \in DOMAIN Readers :
    r \in Nat /\ Readers[r] \in Binding /\ Readers[r].key \in Keys /\ Readers[r].default \in Slot
<1>1. \A r \in DOMAIN Readers : r \in Nat /\ Readers[r] \in Binding
  BY ActionAssumption
<1> QED
  BY <1>1 DEF Binding

\* A resolved tree has a value, or none, for each reader.
LEMMA ResolveTreeType ==
  ASSUME NEW st \in Stores
  PROVE  ResolveTree(st) \in [DOMAIN Readers -> Slot]
BY ReaderIsBinding, ResolveType DEF ResolveTree

\* A declared default is a value or nothing.
LEMMA SeedType == ASSUME NEW k PROVE Seed(k) \in Slot
<1> DEFINE declaring == {r \in DOMAIN Readers : Readers[r].key = k /\ Readers[r].default # Absent}
           first == CHOOSE r \in declaring : \A other \in declaring : r <= other
<1>1. declaring \in SUBSET Nat /\ \A r \in declaring : Readers[r].default \in Slot
  BY ReaderIsBinding
<1>2. Seed(k) = IF k \in Reserved \/ declaring = {} THEN Absent ELSE Readers[first].default
  BY DEF Seed
<1> HIDE DEF declaring
<1>3. ASSUME declaring # {}
      PROVE  first \in declaring
  <2>1. \E r \in declaring : \A other \in declaring : r <= other
    BY <1>1, <1>3, ActionFold!LeastNatural
  <2> QED
    BY <2>1, Zenon
<1> HIDE DEF first
<1> QED
  BY <1>1, <1>2, <1>3 DEF Slot

\* A reader of a slot the store holds shows it, whatever its default.
LEMMA ResolveTreeShows ==
  ASSUME NEW st \in Stores, NEW r \in DOMAIN Readers, st[Readers[r].key] # Absent
  PROVE  ResolveTree(st)[r] = st[Readers[r].key]
BY DEF ResolveTree, Resolve

----------------------------------------------------------------------------
\* What holds of the store, the readers and the effects between events.
StepInv ==
  /\ store \in Stores
  /\ resolved \in [DOMAIN Readers -> Slot]
  /\ output.rejected \in BOOLEAN
  /\ output.rejected => output.effects = <<>>
  /\ EffectsWithinBudget
  /\ ForbiddenSlotsUntouched
  /\ ReadersShowTheStore

\* How often a question has been asked and answered.
CountInv ==
  /\ events \in 0 .. MaxEvents
  /\ asked \in [Questions -> 0 .. events]
  /\ answers \in [Questions -> 0 .. events]
  /\ InnerBehindOuter

ProgramInv == pending \subseteq Questions /\ StepInv /\ CountInv

\* The invariant holds at the start.
LEMMA ProgramInit == Init => ProgramInv
<1> SUFFICES ASSUME Init
             PROVE  ProgramInv
  OBVIOUS
<1> DEFINE seeded == WithStateSeeds(HostStore)
<1>1. HostStore \in Stores
  BY ProgramAssumption DEF Stores
<1>2. seeded \in Stores /\ \A k \in Keys : HostStore[k] # Absent => seeded[k] = HostStore[k]
  BY <1>1, SeedType DEF WithStateSeeds, Stores
<1>3. resolved \in [DOMAIN Readers -> Slot]
  BY <1>2, ResolveTreeType DEF Init, Reprice, Slot
<1>4. ReadersShowTheStore
  <2> SUFFICES ASSUME NodeCost <= MaxNodes, NEW r \in DOMAIN Readers,
                      HostStore[Readers[r].key] # Absent
               PROVE  resolved[r] = HostStore[Readers[r].key]
    BY DEF ReadersShowTheStore, Init
  <2>1. Readers[r].key \in Keys
    BY ReaderIsBinding
  <2>2. seeded[Readers[r].key] = HostStore[Readers[r].key]
    BY <1>2, <2>1
  <2> HIDE DEF seeded
  <2>3. ResolveTree(seeded)[r] = HostStore[Readers[r].key]
    BY <1>2, <2>2, ResolveTreeShows
  <2>4. resolved = Reprice
    BY DEF Init
  <2>5. Reprice = ResolveTree(seeded)
    BY ProgramAssumption DEF Reprice, seeded
  <2> QED
    BY <2>3, <2>4, <2>5
<1>5. EffectsWithinBudget /\ output.rejected = FALSE
  BY ProgramAssumption DEF Init, EffectsWithinBudget
<1>6. StepInv
  BY <1>1, <1>3, <1>4, <1>5 DEF Init, StepInv, ForbiddenSlotsUntouched
<1>7. CountInv
  BY ProgramAssumption DEF Init, CountInv, InnerBehindOuter
<1> QED
  BY <1>6, <1>7 DEF Init, ProgramInv

\* An admitted event's fold.
LEMMA FoldKeepsStep ==
  ASSUME ProgramInv, NEW e \in Events, IsAdmitted(e), NEW standing, FoldOver(e, standing),
         e.answer # NoAnswer => e.answer.token \in Questions
  PROVE  StepInv'
<1> DEFINE outcome == Fold(Reached(e), store, e.payload)
<1>1. /\ store \in Stores /\ e.payload \in Payload /\ Reached(e) \in Seq(Leaf)
  BY EventType, ReachedIsLeaves DEF ProgramInv, StepInv
<1>2. \A i \in DOMAIN Reached(e) : Reached(e)[i].op = "ask" => Reached(e)[i].question \in Questions
  BY <1>1 DEF Leaf
<1>3. outcome \in Outcome(Questions)
  BY <1>1, <1>2, FoldType
<1>4. /\ store' = outcome.store /\ resolved' = ResolveTree(outcome.store)
      /\ output' = [rejected |-> FALSE, effects |-> outcome.effects]
  BY DEF FoldOver, ReResolve
<1>5. Len(outcome.effects) <= MaxActions
  <2>1. Len(outcome.effects) <= Len(Reached(e)) /\ Len(Reached(e)) <= MaxActions
    BY <1>1, FoldLength DEF IsAdmitted, WithinBudget
  <2>2. Len(outcome.effects) \in Nat /\ Len(Reached(e)) \in Nat /\ MaxActions \in Nat
    BY <1>1, <1>3, ProgramAssumption DEF Outcome
  <2> HIDE DEF outcome
  <2> QED
    BY <2>1, <2>2
<1>6. ASSUME NEW k \in Keys, k \in Reserved \/ k \notin MayWrite \cup Written
      PROVE  outcome.store[k] = HostStore[k]
  <2>1. outcome.store[k] = store[k]
    <3>1. \A i \in 1 .. Len(Reached(e)) : Writes(Reached(e)[i], k, e.payload) => k \in Reserved
      BY <1>6, ReachedSpares
    <3> QED
      BY <1>1, <3>1, FoldSpares
  <2>2. store[k] = HostStore[k]
    BY <1>6 DEF ProgramInv, StepInv, ForbiddenSlotsUntouched
  <2> QED
    BY <2>1, <2>2
<1> HIDE DEF outcome
<1>7. store' \in Stores /\ resolved' \in [DOMAIN Readers -> Slot]
  BY <1>3, <1>4, ResolveTreeType DEF Outcome
<1>8. ReadersShowTheStore'
  BY <1>4, <1>7, ResolveTreeShows DEF ReadersShowTheStore
<1>9. ForbiddenSlotsUntouched'
  BY <1>4, <1>6 DEF ForbiddenSlotsUntouched, Written
<1> QED
  BY <1>4, <1>5, <1>7, <1>8, <1>9 DEF StepInv, EffectsWithinBudget

\* The counts after an event that asks what its leaves ask, and answers t if it
\* is an answer.
LEMMA FoldKeepsCounts ==
  ASSUME ProgramInv, NEW e \in Events, IsAdmitted(e), NEW standing, FoldOver(e, standing),
         events < MaxEvents, events' = events + 1,
         \/ e.answer = NoAnswer /\ answers' = answers
         \/ /\ e.answer # NoAnswer /\ e.answer.token \in Questions
            /\ answers' = [answers EXCEPT ![e.answer.token] = @ + 1]
  PROVE  CountInv'
<1> DEFINE asks == AskedBy(Fold(Reached(e), store, e.payload).effects)
<1>1. asked' = [q \in Questions |-> IF q \in asks THEN asked[q] + 1 ELSE asked[q]]
  BY DEF FoldOver
<1>2. /\ events \in 0 .. MaxEvents /\ MaxEvents \in Nat
      /\ asked \in [Questions -> 0 .. events] /\ answers \in [Questions -> 0 .. events]
      /\ InnerBehindOuter
  BY ProgramAssumption DEF ProgramInv, CountInv
<1>3. ASSUME NEW q \in asks
      PROVE  \E i \in DOMAIN Reached(e) : Reached(e)[i].op = "ask" /\ Reached(e)[i].question = q
  <2>1. store \in Stores /\ e.payload \in Payload /\ Reached(e) \in Seq(Leaf)
    BY EventType, ReachedIsLeaves DEF ProgramInv, StepInv
  <2>2. q \in AskedBy(Fold(Reached(e), store, e.payload).effects)
    BY <1>3
  <2>3. AskedBy(Fold(Reached(e), store, e.payload).effects)
          \subseteq {Reached(e)[i].question : i \in {j \in DOMAIN Reached(e) : Reached(e)[j].op = "ask"}}
    BY <2>1, AskedByLeaves
  <2> HIDE DEF asks
  <2> QED
    BY <2>2, <2>3
<1>4. ASSUME NEW q \in asks, NEW outer \in Questions, q \in Questions, Inside(q, outer)
      PROVE  e.answer # NoAnswer /\ e.answer.token = outer
  <2>1. Reached(e) # <<>>
    BY <1>3
  <2>2. CASE e.answer = NoAnswer
    <3>1. Gesture[e.node] # NoAction /\ Reached(e) = Gesture[e.node] /\ e.node \in Nodes
      BY <2>1, <2>2, ReachedIsLeaves
    <3>2. Asks(Gesture[e.node], q)
      BY <1>3, <3>1 DEF Asks
    <3> QED
      BY <1>4, <3>1, <3>2, TokenAssumption
  <2>3. CASE e.answer # NoAnswer
    <3>1. /\ e.answer.token \in Questions /\ e.answer.accepted \in BOOLEAN
          /\ Branch[e.answer.token][e.answer.accepted] # NoAction
          /\ Reached(e) = Branch[e.answer.token][e.answer.accepted]
      BY <2>1, <2>3, ReachedIsLeaves, EventType
    <3>2. Asks(Branch[e.answer.token][e.answer.accepted], q)
      BY <1>3, <3>1 DEF Asks
    <3>3. Inside(q, e.answer.token)
      BY <3>1, <3>2 DEF Inside
    <3> QED
      BY <1>4, <2>3, <3>1, <3>3, TokenAssumption
  <2> QED
    BY <2>2, <2>3
<1> HIDE DEF asks
<1>5. events' \in 0 .. MaxEvents
  BY <1>2
<1>6. asked' \in [Questions -> 0 .. events']
  BY <1>1, <1>2
<1>7. /\ answers' \in [Questions -> 0 .. events']
      /\ \A q \in Questions : answers'[q] >= answers[q]
      /\ e.answer # NoAnswer => answers'[e.answer.token] = answers[e.answer.token] + 1
  BY <1>2
<1>8. InnerBehindOuter'
  <2> SUFFICES ASSUME NEW q \in Questions, NEW outer \in Questions, Inside(q, outer)
               PROVE  asked'[q] <= answers'[outer]
    BY DEF InnerBehindOuter, Inside, Asks
  <2>1. /\ asked[q] <= answers[outer] /\ asked[q] \in Nat /\ answers[outer] \in Nat
        /\ answers'[outer] \in Nat /\ answers'[outer] >= answers[outer]
    BY <1>2, <1>5, <1>7 DEF InnerBehindOuter
  <2>2. CASE q \in asks
    <3>1. answers'[outer] = answers[outer] + 1
      BY <1>4, <1>7, <2>2
    <3>2. asked'[q] = asked[q] + 1
      BY <1>1, <2>2
    <3> QED
      BY <2>1, <3>1, <3>2
  <2>3. CASE q \notin asks
    <3>1. asked'[q] = asked[q]
      BY <1>1, <2>3
    <3> QED
      BY <2>1, <3>1
  <2> QED
    BY <2>2, <2>3
<1> QED
  BY <1>5, <1>6, <1>7, <1>8 DEF CountInv

\* Every event keeps it.
LEMMA ProgramStep == ProgramInv /\ [Next]_vars => ProgramInv'
<1> SUFFICES ASSUME ProgramInv, [Next]_vars
             PROVE  ProgramInv'
  OBVIOUS
<1>1. CASE UNCHANGED vars
  <2>1. UNCHANGED <<store, resolved, pending, output, asked, answers, events>>
    BY <1>1 DEF vars
  <2>2. StepInv' /\ CountInv' /\ pending' \subseteq Questions
    BY <2>1 DEF ProgramInv, StepInv, CountInv, EffectsWithinBudget, ForbiddenSlotsUntouched,
                ReadersShowTheStore, InnerBehindOuter
  <2> QED
    BY <2>2 DEF ProgramInv
<1>2. ASSUME NEW e \in Events, HandleEvent(e), events < MaxEvents, events' = events + 1
      PROVE  ProgramInv'
  <2>1. ASSUME UNCHANGED <<store, resolved, asked, answers>>, pending' \subseteq Questions,
               output'.rejected \in BOOLEAN, output'.effects = <<>>
        PROVE  ProgramInv'
    <3>1. StepInv'
      <4>1. EffectsWithinBudget'
        BY <2>1, ProgramAssumption DEF EffectsWithinBudget
      <4> QED
        BY <2>1, <4>1 DEF ProgramInv, StepInv, ForbiddenSlotsUntouched, ReadersShowTheStore
    <3>2. CountInv'
      <4>1. /\ events' \in 0 .. MaxEvents /\ events \in Nat
            /\ asked \in [Questions -> 0 .. events] /\ answers \in [Questions -> 0 .. events]
        BY <1>2, ProgramAssumption DEF ProgramInv, CountInv
      <4>2. asked' \in [Questions -> 0 .. events'] /\ answers' \in [Questions -> 0 .. events']
        BY <1>2, <2>1, <4>1
      <4> QED
        BY <2>1, <4>1, <4>2 DEF ProgramInv, CountInv, InnerBehindOuter
    <3> QED
      BY <2>1, <3>1, <3>2 DEF ProgramInv
  <2>2. CASE Refuse(e)
    BY <2>1, <2>2 DEF Refuse, ProgramInv
  <2>3. CASE Ignore(e)
    BY <2>1, <2>3 DEF Ignore
  <2>4. CASE RunGesture(e)
    <3>1. IsAdmitted(e) /\ e.answer = NoAnswer /\ FoldOver(e, {}) /\ answers' = answers
      BY <2>4 DEF RunGesture, StandingAtGesture
    <3>2. StepInv' /\ CountInv'
      BY <1>2, <3>1, FoldKeepsStep, FoldKeepsCounts
    <3>3. pending' \subseteq Questions
      BY <3>1 DEF FoldOver, AskedBy
    <3> QED
      BY <3>2, <3>3 DEF ProgramInv
  <2>5. CASE RunAnswer(e)
    <3> DEFINE t == e.answer.token
    <3>1. /\ IsAdmitted(e) /\ e.answer # NoAnswer /\ FoldOver(e, pending \ {t})
          /\ answers' = [answers EXCEPT ![t] = @ + 1] /\ t \in Questions
      BY <2>5 DEF RunAnswer, StandingAtAnswer, IsAdmitted, AnswerAdmitted, ProgramInv
    <3>2. StepInv' /\ CountInv'
      BY <1>2, <3>1, FoldKeepsStep, FoldKeepsCounts
    <3>3. pending' \subseteq Questions
      BY <3>1 DEF FoldOver, AskedBy, ProgramInv
    <3> QED
      BY <3>2, <3>3 DEF ProgramInv
  <2> QED
    BY <1>2, <2>2, <2>3, <2>4, <2>5 DEF HandleEvent
<1> QED
  BY <1>1, <1>2 DEF Next

\* In every reachable state the store, the readers, the questions and the effects
\* are what ProgramInv says, whatever event comes next (handle_event).
THEOREM ProgramInvariant == Spec => []ProgramInv
BY ProgramInit, ProgramStep, PTL DEF Spec

\* Whatever an event wrote, every reader of a slot the store holds shows what it
\* holds: no substitution of an earlier step survives (handle_event's last step).
THEOREM ReadersAlwaysShowTheStore == Spec => []ReadersShowTheStore
<1>1. ProgramInv => ReadersShowTheStore
  BY DEF ProgramInv, StepInv
<1> QED
  BY <1>1, ProgramInvariant, PTL

\* For every tree of actions, policy, store and event, forged or not: no
\* continuation is reached before the question around it is answered, no slot is
\* written that the policy or the host keeps, and no step reaches more effects
\* than one interaction is allowed (handle_event, run_answer).
THEOREM EffectsAlwaysAdmitted == Spec => []EffectsAreAdmitted
<1>1. ProgramInv => EffectsAreAdmitted
  <2> SUFFICES ASSUME ProgramInv
               PROVE  EffectsAreAdmitted
    OBVIOUS
  <2>1. /\ events \in 0 .. MaxEvents /\ MaxEvents \in Nat
        /\ asked \in [Questions -> 0 .. events] /\ answers \in [Questions -> 0 .. events]
    BY ProgramAssumption DEF ProgramInv, CountInv
  <2>2. asked \in [Questions -> 0 .. MaxEvents] /\ answers \in [Questions -> 0 .. MaxEvents]
    BY <2>1
  <2>3. TypeOK
    BY <2>1, <2>2 DEF TypeOK, ProgramInv, StepInv, Stores
  <2> QED
    BY <2>3 DEF EffectsAreAdmitted, ProgramInv, StepInv, CountInv
<1> QED
  BY <1>1, ProgramInvariant, PTL
=============================================================================
