------------------------------ MODULE Outlines ------------------------------
(***************************************************************************)
(* What the engine of src/ops/mod.rs does to a tree, without recursion: a  *)
(* tree is laid out as the function from the places of its nodes to the    *)
(* nodes.  A place is the path from the root, one step per level; a step   *)
(* says which children of the node above it goes to, its kind's or its     *)
(* state block's, and to which of them.                                    *)
(*                                                                         *)
(* Every structural op puts another group of subtrees in the place of one  *)
(* node's children (Regroup); what ops do to the fields of a node is left  *)
(* out, UpdateValue standing for the ops that do nothing else.  An op is   *)
(* the sequence of its members: a Batch its ops', however nested, another  *)
(* op itself.  What is refused is not told apart: it is NoTree.            *)
(***************************************************************************)
EXTENDS Naturals, Sequences, SequencesExt, FiniteSets

CONSTANTS
  Id,          \* node ids
  Payload,     \* the trees an op may bring in
  Op,          \* the ops a host may send
  Seeds,       \* the trees it may start from
  MaxDepth,    \* MAX_NODE_DEPTH
  MaxNodes     \* MAX_NODES

VARIABLE outline

-----------------------------------------------------------------------------
(***************************************************************************)
(* Trees.                                                                  *)
(***************************************************************************)
Slots == {"kids", "state"}
Kinds == {"layout", "switch", "leaf"}
Place == Seq(Slots \X (Nat \ {0}))

(* A node knows how many children it has in each slot. *)
Content == [id : Id, kind : Kinds, size : [Slots -> Nat]]

(* The i-th child in a slot of the node at p. *)
Child(p, s, i) == Append(p, <<s, i>>)

(* a is q, or above it. *)
Over(a, q) == Len(a) <= Len(q) /\ \A k \in 1 .. Len(a) : a[k] = q[k]

(* The way from a down to q. *)
Below(a, q) == SubSeq(q, Len(a) + 1, Len(q))

(* q is in, or under, a slot of p. *)
InSlot(p, s, q) == Len(p) < Len(q) /\ Over(p, q) /\ q[Len(p) + 1][1] = s

(* What is under a root hangs from a child of it, and the children of every  *)
(* node are numbered from one.                                               *)
IsTree(t) ==
  /\ IsFiniteSet(DOMAIN t) /\ DOMAIN t \subseteq Place
  /\ t \in [DOMAIN t -> Content]
  /\ <<>> \in DOMAIN t
  /\ \A q \in DOMAIN t, s \in Slots : \A i \in 1 .. t[q].size[s] : Child(q, s, i) \in DOMAIN t
  /\ \A q \in DOMAIN t \ {<<>>} :
       /\ Front(q) \in DOMAIN t
       /\ Last(q)[2] <= t[Front(q)].size[Last(q)[1]]

(* No place at all. *)
NoTree == <<>>

IdsOf(t) == {t[q].id : q \in DOMAIN t}

(* The subtree at p. *)
Subtree(t, p) ==
  [r \in {Below(p, q) : q \in {x \in DOMAIN t : Over(p, x)}} |-> t[p \o r]]

Group(t, p, s) == [i \in 1 .. t[p].size[s] |-> Subtree(t, Child(p, s, i))]

(* The tree with another group of subtrees in a slot of p. *)
Regroup(t, p, s, group) ==
  LET rest == {q \in DOMAIN t : ~InSlot(p, s, q)}
      filled == UNION {{Child(p, s, i) \o r : r \in DOMAIN group[i]} : i \in DOMAIN group}
      Sized == [t[p] EXCEPT !.size = [@ EXCEPT ![s] = Len(group)]]
      Hung(q) == group[q[Len(p) + 1][2]][Below(Child(p, s, 1), q)]
  IN  [q \in rest \cup filled |->
         IF q = p THEN Sized ELSE IF InSlot(p, s, q) THEN Hung(q) ELSE t[q]]

-----------------------------------------------------------------------------
(***************************************************************************)
(* The walks: the first place, in document order, of those wanted.         *)
(***************************************************************************)
StepBefore(a, b) ==
  \/ a[1] = "kids" /\ b[1] = "state"
  \/ a[1] = b[1] /\ a[2] < b[2]

Before(p, q) ==
  \/ p # q /\ Over(p, q)
  \/ \E k \in DOMAIN p \cap DOMAIN q :
       StepBefore(p[k], q[k]) /\ \A j \in 1 .. k - 1 : p[j] = q[j]

Ahead(t, p) == Cardinality({q \in DOMAIN t : Before(q, p)})

First(t, wanted) == CHOOSE p \in wanted : \A q \in wanted : Ahead(t, p) <= Ahead(t, q)

Holders(t, id) == {p \in DOMAIN t : t[p].id = id}
Find(t, id) == First(t, Holders(t, id))

LayoutParents(t, id) ==
  {p \in DOMAIN t :
     /\ t[p].kind = "layout"
     /\ \E i \in 1 .. t[p].size["kids"] : t[Child(p, "kids", i)].id = id}
FindLayoutParent(t, id) == First(t, LayoutParents(t, id))

(* id is held somewhere under the first holder of the ancestor. *)
IsAncestor(t, ancestor, id) ==
  /\ Holders(t, ancestor) # {}
  /\ \E q \in Holders(t, id) : q # Find(t, ancestor) /\ Over(Find(t, ancestor), q)

-----------------------------------------------------------------------------
(***************************************************************************)
(* The ops, each with what it asks of the tree and what it makes of it.    *)
(***************************************************************************)
Held(t, id) == Holders(t, id) # {}
HeldLayout(t, id) == Held(t, id) /\ t[Find(t, id)].kind = "layout"

Edited(t, m) ==
  LET p == Find(t, m.target)
  IN  [Regroup(t, p, "kids", m.kids) EXCEPT ![p] = [@ EXCEPT !.kind = m.kind]]

Restated(t, m) == Regroup(t, Find(t, m.target), "state", m.state)

MayInsert(t, parent, child) ==
  HeldLayout(t, parent) /\ IdsOf(child) \cap IdsOf(t) = {}

Inserted(t, parent, child) ==
  LET p == Find(t, parent)
  IN  Regroup(t, p, "kids", Append(Group(t, p, "kids"), child))

(* The parent the walk finds is looked up again by its id. *)
Bereft(t, target) == Find(t, t[FindLayoutParent(t, target)].id)

MayRemove(t, target) ==
  /\ t[<<>>].id # target
  /\ LayoutParents(t, target) # {}
  /\ t[Bereft(t, target)].kind = "layout"

Others(target, group) ==
  FoldLeft(LAMBDA kept, u : IF u[<<>>].id = target THEN kept ELSE Append(kept, u),
           <<>>, group)

Removed(t, target) ==
  LET p == Bereft(t, target)
  IN  Regroup(t, p, "kids", Others(target, Group(t, p, "kids")))

MayMove(t, target, parent) ==
  /\ target # parent
  /\ ~IsAncestor(t, target, parent)
  /\ Held(t, target)
  /\ HeldLayout(t, parent)
  /\ MayRemove(t, target)
  /\ MayInsert(Removed(t, target), parent, Subtree(t, Find(t, target)))

Moved(t, target, parent) ==
  Inserted(Removed(t, target), parent, Subtree(t, Find(t, target)))

(* order lists the ids the children have, each as often as they have it. *)
MayReorder(t, parent, order) ==
  /\ HeldLayout(t, parent)
  /\ LET group == Group(t, Find(t, parent), "kids")
     IN  /\ Len(order) = Len(group)
         /\ \E turn \in Bijection(DOMAIN group, DOMAIN group) :
              \A i \in DOMAIN order : order[i] = group[turn[i]][<<>>].id

Reordered(t, parent, order) ==
  LET p == Find(t, parent)
      group == Group(t, p, "kids")
      Named(id) == {i \in DOMAIN group : group[i][<<>>].id = id}
      FirstNamed(id) == CHOOSE i \in Named(id) : \A j \in Named(id) : i <= j
  IN  Regroup(t, p, "kids", [i \in DOMAIN order |-> group[FirstNamed(order[i])]])

May(t, m) ==
  CASE m.op \in {"EditNode", "UpdateState", "UpdateValue"} -> Held(t, m.target)
    [] m.op = "InsertChild" -> MayInsert(t, m.parent, m.child)
    [] m.op = "RemoveNode" -> MayRemove(t, m.target)
    [] m.op = "MoveNode" -> MayMove(t, m.target, m.parent)
    [] m.op = "ReorderChildren" -> MayReorder(t, m.parent, m.order)
    [] m.op = "ReplaceRoot" -> TRUE

Made(t, m) ==
  CASE m.op = "EditNode" -> Edited(t, m)
    [] m.op = "UpdateState" -> Restated(t, m)
    [] m.op = "UpdateValue" -> t
    [] m.op = "InsertChild" -> Inserted(t, m.parent, m.child)
    [] m.op = "RemoveNode" -> Removed(t, m.target)
    [] m.op = "MoveNode" -> Moved(t, m.target, m.parent)
    [] m.op = "ReorderChildren" -> Reordered(t, m.parent, m.order)
    [] m.op = "ReplaceRoot" -> m.node

(* apply_one, one member after the other, all or nothing. *)
Draft(t, op) ==
  FoldLeft(LAMBDA d, m : IF d # NoTree /\ May(d, m) THEN Made(d, m) ELSE NoTree, t, op)

-----------------------------------------------------------------------------
(***************************************************************************)
(* apply: the draft, then the limits if it can have grown, then the ids.   *)
(***************************************************************************)
(* Mutated form: the alternatives of a state block are passed over. *)
BroughtWithoutState(m) ==
  CASE m.op = "InsertChild" -> {m.child}
    [] m.op = "ReplaceRoot" -> {m.node}
    [] m.op = "EditNode" -> {m.kids[i] : i \in DOMAIN m.kids}
    [] OTHER -> {}

Brought(m) ==
  CASE m.op = "InsertChild" -> {m.child}
    [] m.op = "ReplaceRoot" -> {m.node}
    [] m.op = "EditNode" -> {m.kids[i] : i \in DOMAIN m.kids}
    [] m.op = "UpdateState" -> {m.state[i] : i \in DOMAIN m.state}
    [] OTHER -> {}

InsertedNodes(op) == UNION {Brought(op[i]) : i \in DOMAIN op}
InsertedIds(op) == UNION {IdsOf(u) : u \in InsertedNodes(op)}

(* Mutated form: a move is taken for an op that adds nothing. *)
OpCanGrowByNodesOnly(op) == InsertedNodes(op) # {}

OpCanGrow(op) ==
  InsertedNodes(op) # {} \/ \E i \in DOMAIN op : op[i].op = "MoveNode"

WithinLimits(t) ==
  Cardinality(DOMAIN t) <= MaxNodes /\ \A q \in DOMAIN t : Len(q) < MaxDepth

InstalledIdsUnique(op, t) ==
  \A id \in InsertedIds(op) : \A p, q \in Holders(t, id) : p = q

Apply(t, op) ==
  LET d == Draft(t, op)
  IN  IF /\ d # NoTree
         /\ OpCanGrow(op) => WithinLimits(d)
         /\ InstalledIdsUnique(op, d)
      THEN d ELSE NoTree

Init == outline \in Seeds

Edit(op) == Apply(outline, op) # NoTree /\ outline' = Apply(outline, op)

Next == \E op \in Op : Edit(op)

Spec == Init /\ [][Next]_outline

-----------------------------------------------------------------------------
(***************************************************************************)
(* What a host may start from, and be sent.                                *)
(***************************************************************************)
IdsAreUnique(t) == \A p, q \in DOMAIN t : t[p].id = t[q].id => p = q

IsLegal(t) == IsTree(t) /\ IdsAreUnique(t) /\ WithinLimits(t)

Member ==
  [op : {"EditNode"}, target : Id, kind : Kinds, kids : Seq(Payload)]
  \cup [op : {"UpdateState"}, target : Id, state : Seq(Payload)]
  \cup [op : {"UpdateValue", "RemoveNode"}, target : Id]
  \cup [op : {"InsertChild"}, parent : Id, child : Payload]
  \cup [op : {"MoveNode"}, target : Id, parent : Id]
  \cup [op : {"ReorderChildren"}, parent : Id, order : Seq(Id)]
  \cup [op : {"ReplaceRoot"}, node : Payload]

ASSUME LimitsAssumption == MaxDepth \in Nat /\ MaxNodes \in Nat
ASSUME SeedsAssumption == \A t \in Seeds : IsLegal(t)

(* What arrives is a tree of any size and may repeat ids: nothing else has   *)
(* looked at it.                                                             *)
ASSUME PayloadAssumption == \A t \in Payload : IsTree(t)
ASSUME OpAssumption == Op \subseteq Seq(Member)

-----------------------------------------------------------------------------
(***************************************************************************)
(* Properties                                                              *)
(***************************************************************************)
(* No sequence of ops makes a tree that repeats an id, the one thing every   *)
(* op addresses by, or that is over a limit, past which no host decodes it:  *)
(* not by a move that stacks two depths, not by a batch that is judged only  *)
(* by what it leaves, not by an op whose ids are never looked up (apply).    *)
OutlineIsLegal == IsLegal(outline)

(* A copy, with an id the op brought in, under which p is, and another, that *)
(* neither holds nor is held by the first, under which q is.                 *)
UnderCopies(t, installed, p, q) ==
  \E a, b \in DOMAIN t :
    /\ Over(a, p) /\ Over(b, q)
    /\ ~Over(a, b) /\ ~Over(b, a)
    /\ t[a].id = t[b].id /\ t[a].id \in installed

(* An id is only ever repeated on account of the installed ones. *)
Accounted(t, installed) ==
  \A p, q \in DOMAIN t :
    (p # q /\ t[p].id = t[q].id) => t[p].id \in installed \/ UnderCopies(t, installed, p, q)

(* check_installed_ids looks only for the ids an op brought in, though the   *)
(* drafts of a batch may hold any id twice: that is enough, as whatever the  *)
(* members do, an id is repeated in a draft only with one that was brought   *)
(* in, which repeats as well.                                                *)
DraftsAreAccounted ==
  \A op \in Op :
    LET d == Draft(outline, op)
    IN  d # NoTree => IsTree(d) /\ Accounted(d, InsertedIds(op))
=============================================================================
