----------------------------- MODULE DurableLog -----------------------------
(***************************************************************************)
(* What a durable edge session promises the callers of src/edge: one       *)
(* history of ops, each of which applied to the tree the ops before it     *)
(* built; the history only grows; an op whose call was answered Ok is in   *)
(* it for ever.  No activation, store, checkpoint or crash is visible.     *)
(***************************************************************************)
EXTENDS Naturals, Sequences

CONSTANTS
  Op,            \* the decoded tree-ops
  Tree,          \* the trees a session can hold
  Seed,          \* the tree a session begins life with
  NoTree,        \* what Apply yields for an op that is refused
  Apply(_, _)    \* ops::apply, as a partial function of a tree and an op

VARIABLES
  log,           \* the ops of the session's history, oldest first
  tree,          \* the tree that history builds
  confirmed      \* the positions of it whose caller was answered Ok

logVars == <<log, tree, confirmed>>

Init ==
  /\ log = <<>>
  /\ tree = Seed
  /\ confirmed = {}

(* One op becomes history, and the tree moves with it. *)
Commit(o) ==
  /\ Apply(tree, o) \in Tree
  /\ log' = Append(log, o)
  /\ tree' = Apply(tree, o)
  /\ UNCHANGED confirmed

(* The caller whose op is at position n is told so. *)
Confirm(n) ==
  /\ n \in 1 .. Len(log)
  /\ confirmed' = confirmed \cup {n}
  /\ UNCHANGED <<log, tree>>

Next ==
  \/ \E o \in Op : Commit(o)
  \/ \E n \in 1 .. Len(log) : Confirm(n)

Spec == Init /\ [][Next]_logVars
=============================================================================
