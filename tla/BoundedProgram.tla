--------------------------- MODULE BoundedProgram ---------------------------
(* The bounded program loop of src/bounded: a tree that arrived as data, a    *)
(* store, and a host that hands the loop one untrusted event at a time        *)
(* (BoundedProgram::handle_event).  An event is validated against the tree,   *)
(* priced, folded over the store, and the fixed tree is resolved again; an    *)
(* action may ask a question, whose answer is a later event that runs one of  *)
(* its two continuations.                                                     *)
(*                                                                            *)
(* An action is modelled by the sequence of leaves a fold reaches: a chain is *)
(* flattened (its fold and its price both are), and a question is a leaf      *)
(* whose continuations are leaf sequences of their own.  A question stands    *)
(* for its token, "node#path": one question of the tree, whenever it is asked.*)
(* A binding is a state slot with the reader's own default.  The variables    *)
(* asked, answers and events are history: the loop does not keep them.        *)
EXTENDS Naturals, Sequences, SequencesExt

CONSTANTS
  Nodes,          \* the nodes of the tree that accept an event
  Questions,      \* the Confirms of the tree
  Owner,          \* [Questions -> Nodes]: whose action a question is part of
  Gesture,        \* [Nodes -> leaves of the node's action, or NoAction]
  Branch,         \* [Questions -> [BOOLEAN -> leaves of a continuation, or NoAction]]
  Readers,        \* the State bindings that show, in tree order
  Keys, Vals,     \* state slots and their values
  Reserved,       \* the slots under "host."
  Fields,         \* form fields with a Local buffer
  CommitTo,       \* [Fields -> Keys \cup {Absent}]: where a field commits
  Reads,          \* [Fields -> [Vals -> Slot]]: what its codec makes of a
                  \* value, Absent when it takes none
  HostStore,      \* [Keys -> Vals \cup {Absent}]: the store the host starts with
  MayDispatch,    \* the dispatch policy: the nodes whose action it admits,
  MayContinue,    \* the continuations, <<question, accepted>>, and
  MayWrite,       \* the slots a commit may write
  MaxActions, MaxNodes, NodeCost,
  Absent, NoAction, NoAnswer, Unknown,
  MaxEvents       \* bound on the events of a behaviour

Slot == Vals \cup {Absent}

Payload == [Fields -> Slot]

ASSUME ProgramAssumption ==
  /\ Owner \in [Questions -> Nodes]
  /\ CommitTo \in [Fields -> Keys \cup {Absent}]
  /\ Reads \in [Fields -> [Vals -> Slot]]
  /\ HostStore \in [Keys -> Slot]
  /\ Absent \notin Vals \cup Keys
  /\ {MaxActions, MaxNodes, NodeCost, MaxEvents} \subseteq Nat

\* A State binding: its slot, and the default it declares if it does.
Binding == [key : Keys, default : Slot]

\* The leaves of an action: two writes, a commit, an effect that needs nothing,
\* one that needs a value, a question, and whatever the fold passes by.
Leaf ==
  [op : {"set"}, key : Keys, value : Slot]
    \cup [op : {"copy"}, key : Keys, from : Binding]
    \cup [op : {"commit"}, field : Fields]
    \cup [op : {"emit", "none"}]
    \cup [op : {"go"}, from : Binding]
    \cup [op : {"ask"}, question : Questions, from : Binding]

\* The tree is decoded: its actions are made of leaves.
ASSUME ActionAssumption ==
  /\ Readers \in Seq(Binding)
  /\ Gesture \in [Nodes -> {NoAction} \cup Seq(Leaf)]
  /\ Branch \in [Questions -> [BOOLEAN -> {NoAction} \cup Seq(Leaf)]]
  /\ "effect" \notin Questions

Asks(leaves, q) ==
  leaves # NoAction /\ \E i \in DOMAIN leaves : leaves[i].op = "ask" /\ leaves[i].question = q

\* q is asked in a continuation of outer.
Inside(q, outer) == \E c \in BOOLEAN : Asks(Branch[outer][c], q)

\* A token, "node#path", is one place of one action: a question in a
\* continuation is in no gesture, and in no other question's continuation.
ASSUME TokenAssumption ==
  \A q, outer \in Questions :
    Inside(q, outer) =>
      /\ \A n \in Nodes : ~Asks(Gesture[n], q)
      /\ \A other \in Questions : Inside(q, other) => other = outer

VARIABLES
  store,      \* BoundedProgram.store, its state slots
  resolved,   \* BoundedProgram.resolved: what each reader shows
  pending,    \* BoundedProgram.pending
  output,     \* the last StepOutput: refused or the effects it reached
  asked,      \* how many times each question has been asked
  answers,    \* how many times each question has been answered
  events      \* how many events have been handled

vars == <<store, resolved, pending, output, asked, answers, events>>

----------------------------------------------------------------------------
\* What a binding resolves to: the slot, else the reader's own default.
Resolve(st, b) == IF st[b.key] # Absent THEN st[b.key] ELSE b.default

\* The value the tree declares for a slot: that of the first reader declaring
\* one, and none for a slot of the host's.
Seed(k) ==
  LET declaring == {r \in DOMAIN Readers : Readers[r].key = k /\ Readers[r].default # Absent}
      first     == CHOOSE r \in declaring : \A other \in declaring : r <= other
  IN  IF k \in Reserved \/ declaring = {} THEN Absent ELSE Readers[first].default

\* The seeds laid under a store.
WithStateSeeds(st) == [k \in Keys |-> IF st[k] # Absent THEN st[k] ELSE Seed(k)]

\* The fixed tree resolved against a store.
ResolveTree(st) == [r \in DOMAIN Readers |-> Resolve(st, Readers[r])]

----------------------------------------------------------------------------
\* The value a commit of field f writes, Absent when it writes nothing: no
\* destination, no value in the event, or one the codec does not take.
FlushedValue(f, payload) ==
  IF CommitTo[f] # Absent /\ payload[f] # Absent THEN Reads[f][payload[f]] ELSE Absent

\* A write of a slot: refused under the host's prefix, and when there is no value.
Assign(st, k, v) == IF k \in Reserved \/ v = Absent THEN st ELSE [st EXCEPT ![k] = v]

Emit(acc, effect) == [acc EXCEPT !.effects = Append(@, effect)]

\* One leaf of a fold: a write, a commit, an effect that needs nothing, one
\* that needs a value (a route, a prompt) and is refused without, or a no-op.
FoldLeaf(acc, leaf, payload) ==
  CASE leaf.op = "set"    -> [acc EXCEPT !.store = Assign(@, leaf.key, leaf.value)]
    [] leaf.op = "copy"   -> [acc EXCEPT !.store =
                                Assign(@, leaf.key, Resolve(@, leaf.from))]
    [] leaf.op = "commit" -> IF FlushedValue(leaf.field, payload) = Absent THEN acc
                             ELSE [acc EXCEPT !.store =
                                     Assign(@, CommitTo[leaf.field],
                                            FlushedValue(leaf.field, payload))]
    [] leaf.op = "emit"   -> Emit(acc, "effect")
    [] leaf.op = "go"     -> IF Resolve(acc.store, leaf.from) = Absent THEN acc
                             ELSE Emit(acc, "effect")
    [] leaf.op = "ask"    -> IF Resolve(acc.store, leaf.from) = Absent THEN acc
                             ELSE Emit(acc, leaf.question)
    [] OTHER              -> acc

Fold(leaves, st, payload) ==
  FoldLeft(LAMBDA acc, leaf : FoldLeaf(acc, leaf, payload),
           [store |-> st, effects |-> <<>>], leaves)

\* The questions among the effects of a fold.
AskedBy(effects) == {q \in Questions : \E i \in DOMAIN effects : effects[i] = q}

----------------------------------------------------------------------------
\* An event: the node it names, whether its name and payload are ones the node's
\* kind accepts, the flush payload, and the answer it carries, if any: a token
\* (Unknown if it addresses no question) and the reader's choice.  Nothing in it
\* says which asking the reader had before him, so a late or duplicate answer is
\* the same event as a fresh one.
Answer == [token : Questions \cup {Unknown}, accepted : BOOLEAN]

Events ==
  [node : Nodes \cup {Unknown}, fits : BOOLEAN, payload : Payload,
   answer : Answer \cup {NoAnswer}]

\* The four checks of the trust boundary.
Valid(e) ==
  /\ e.node \in Nodes
  /\ e.fits
  /\ Gesture[e.node] # NoAction => e.node \in MayDispatch

\* The leaves an event reaches: the node's action, or the continuation its
\* answer selects.
Reached(e) ==
  IF e.answer = NoAnswer THEN Gesture[e.node]
  ELSE IF Branch[e.answer.token][e.answer.accepted] = NoAction THEN <<>>
  ELSE Branch[e.answer.token][e.answer.accepted]

\* An answer is admitted to a pending question of the node's own action whose
\* continuation the dispatch policy admits.
AnswerAdmitted(e) ==
  LET a == e.answer
  IN  /\ a.token \in pending
      /\ Owner[a.token] = e.node
      /\ Branch[a.token][a.accepted] # NoAction => <<a.token, a.accepted>> \in MayContinue

\* The slots the commits among some leaves write.
CommitWrites(leaves, payload) ==
  {CommitTo[leaves[i].field] :
     i \in {j \in DOMAIN leaves : /\ leaves[j].op = "commit"
                                  /\ FlushedValue(leaves[j].field, payload) # Absent}}

\* Mutant: only the gesture's own commits are put to the policy.
WritesAdmittedAtAsk(e) ==
  e.answer = NoAnswer => CommitWrites(Gesture[e.node], e.payload) \subseteq MayWrite

WritesAdmitted(e) == CommitWrites(Reached(e), e.payload) \subseteq MayWrite

WithinBudget(e) == Len(Reached(e)) <= MaxActions /\ NodeCost <= MaxNodes

\* A legitimate event of a node that carries no action.
IsInert(e) == Valid(e) /\ Gesture[e.node] = NoAction /\ e.answer = NoAnswer

IsAdmitted(e) ==
  /\ Valid(e)
  /\ Gesture[e.node] # NoAction
  /\ e.answer # NoAnswer => AnswerAdmitted(e)
  /\ WritesAdmitted(e)
  /\ WithinBudget(e)

----------------------------------------------------------------------------
\* The tree a program starts with: resolved over its own seeds, and left
\* unresolved when it is over budget.
Reprice ==
  IF NodeCost > MaxNodes THEN [r \in DOMAIN Readers |-> Absent]
  ELSE ResolveTree(WithStateSeeds(HostStore))

\* BoundedProgram::new and its builders.
Init ==
  /\ store = HostStore
  /\ resolved = Reprice
  /\ pending = {}
  /\ output = [rejected |-> FALSE, effects |-> <<>>]
  /\ asked = [q \in Questions |-> 0]
  /\ answers = [q \in Questions |-> 0]
  /\ events = 0

\* A refusal: nothing happened.
Refuse(e) ==
  /\ ~IsInert(e) /\ ~IsAdmitted(e)
  /\ output' = [rejected |-> TRUE, effects |-> <<>>]
  /\ UNCHANGED <<store, resolved, pending, asked, answers>>

\* An event with nothing to do still withdraws every question.
Ignore(e) ==
  /\ IsInert(e)
  /\ pending' = {}
  /\ output' = [rejected |-> FALSE, effects |-> <<>>]
  /\ UNCHANGED <<store, resolved, asked, answers>>

\* Mutant: the previous step's tree is resolved, in which what it showed is fixed.
ReResolveShown(st) ==
  [r \in DOMAIN Readers |->
     IF resolved[r] # Absent THEN resolved[r] ELSE Resolve(st, Readers[r])]

\* The tree after a step: the fixed tree again, over the store alone.
ReResolve(st) == ResolveTree(st)

\* The fold of an admitted event, on top of the questions still standing.
FoldOver(e, standing) ==
  LET outcome == Fold(Reached(e), store, e.payload)
      asks    == AskedBy(outcome.effects)
  IN  /\ store' = outcome.store
      /\ resolved' = ReResolve(outcome.store)
      /\ pending' = standing \cup asks
      /\ output' = [rejected |-> FALSE, effects |-> outcome.effects]
      /\ asked' = [q \in Questions |-> IF q \in asks THEN asked[q] + 1 ELSE asked[q]]

\* The questions that stand while a gesture is folded: none.
StandingAtGesture == {}

\* Mutant: an answered question is left pending.
StandingAtAnswerKept(q) == pending

\* The questions that stand while an answer to question q is folded.
StandingAtAnswer(q) == pending \ {q}

RunGesture(e) ==
  /\ IsAdmitted(e)
  /\ e.answer = NoAnswer
  /\ FoldOver(e, StandingAtGesture)
  /\ UNCHANGED answers

RunAnswer(e) ==
  /\ IsAdmitted(e)
  /\ e.answer # NoAnswer
  /\ FoldOver(e, StandingAtAnswer(e.answer.token))
  /\ answers' = [answers EXCEPT ![e.answer.token] = @ + 1]

HandleEvent(e) == Refuse(e) \/ Ignore(e) \/ RunGesture(e) \/ RunAnswer(e)

Next ==
  /\ events < MaxEvents
  /\ events' = events + 1
  /\ \E e \in Events : HandleEvent(e)

Spec == Init /\ [][Next]_vars
----------------------------------------------------------------------------
TypeOK ==
  /\ store \in [Keys -> Slot]
  /\ resolved \in [DOMAIN Readers -> Slot]
  /\ pending \subseteq Questions
  /\ output.rejected \in BOOLEAN
  /\ output.rejected => output.effects = <<>>
  /\ asked \in [Questions -> 0..MaxEvents]
  /\ answers \in [Questions -> 0..MaxEvents]
  /\ events \in 0..MaxEvents

\* A question is answered at most once for each time it was asked, and a
\* question still pending is an asking not yet answered: no order of gestures
\* on any node, duplicate, late or forged answers runs a continuation the loop
\* did not ask for (program.rs, pending).
OneAnswerPerAsking ==
  \A q \in Questions :
    answers[q] + (IF q \in pending THEN 1 ELSE 0) <= asked[q]

\* A question inside a continuation is asked only when the question around it
\* has been answered: a token is never honoured, nor minted, from the shape of
\* the action alone (run_answer, addressed_confirm).
InnerBehindOuter ==
  \A q, outer \in Questions : Inside(q, outer) => asked[q] <= answers[outer]

\* The slots the tree's own actions set.
WrittenBy(leaves) ==
  {leaves[i].key : i \in {j \in DOMAIN leaves : leaves[j].op \in {"set", "copy"}}}

Actions ==
  ({Gesture[n] : n \in Nodes} \cup {Branch[q][c] : q \in Questions, c \in BOOLEAN}) \ {NoAction}

Written == UNION {WrittenBy(leaves) : leaves \in Actions}

\* A slot of the host's, and a slot that only commits write and the dispatch
\* policy does not admit, keep the host's value whatever is asked, answered and
\* committed: every path to a write meets both gates (program.rs, the flush;
\* the reserved namespace).
ForbiddenSlotsUntouched ==
  \A k \in Keys :
    k \in Reserved \/ k \notin MayWrite \cup Written => store[k] = HostStore[k]

\* A reader of a slot the store holds shows the store's value: no earlier
\* substitution survives, since every step resolves the tree the program
\* started from (handle_event's last step).
ReadersShowTheStore ==
  NodeCost <= MaxNodes =>
    \A r \in DOMAIN Readers :
      store[Readers[r].key] # Absent => resolved[r] = store[Readers[r].key]

\* No event reaches more effects than one interaction is allowed: the
\* continuation an answer selects is priced as a gesture is (budget.rs).
EffectsWithinBudget == Len(output.effects) <= MaxActions

\* What an event reaches was asked for, admitted and paid for: no continuation runs
\* before the question around it is answered, no gated slot is written and no list
\* of effects is over the budget, whatever was asked, forged or answered before it.
EffectsAreAdmitted ==
  /\ TypeOK
  /\ InnerBehindOuter
  /\ ForbiddenSlotsUntouched
  /\ EffectsWithinBudget

\* What seeds.rs says of a declared default, at every moment: it is the value
\* of its slot for every reader until something is written there.
SeedsHold ==
  NodeCost <= MaxNodes => resolved = ResolveTree(WithStateSeeds(store))
=============================================================================
