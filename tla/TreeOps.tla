------------------------------ MODULE TreeOps -------------------------------
(***************************************************************************)
(* UI trees and the engine that edits them, src/src/ops/mod.rs: the walks  *)
(* every id-addressed op shares, one operator per TreeOp, and apply with   *)
(* its two guards on the result, the size limits and then the uniqueness   *)
(* of the ids the op installed.                                            *)
(*                                                                         *)
(* A node is                                                               *)
(*   [id, kind, own, kids, tone, voice, access, tooltip, state]            *)
(* A kind is "layout" (the eight kinds with a children list), "switch"     *)
(* (the kinds that hold nodes the structural ops cannot address: Switch,   *)
(* ErrorBoundary, FragmentDecl) or "leaf"; own stands for its other        *)
(* fields, UpdateProp's and ReplaceBinding's alike.  Two of the six style  *)
(* fields are kept; state holds the onLoading and onEmpty alternatives.    *)
(* The recursion makes this a module for model checking only.              *)
(***************************************************************************)
EXTENDS Naturals, Sequences, SequencesExt, FiniteSets, FiniteSetsExt, TLC

CONSTANTS
    IdOrder,   \* every node id, in ordinal byte order
    MaxDepth,  \* MAX_NODE_DEPTH
    MaxNodes   \* MAX_NODES

ASSUME IdOrderAssumption == IsInjective(IdOrder)
ASSUME LimitsAssumption == MaxDepth \in Nat \ {0} /\ MaxNodes \in Nat \ {0}

Ids == ToSet(IdOrder)
Kinds == {"layout", "switch", "leaf"}
StyleFields == {"tone", "voice"}

Node(id, kind, own, kids) ==
    [id |-> id, kind |-> kind, own |-> own, kids |-> kids, tone |-> 0,
     voice |-> 0, access |-> 0, tooltip |-> 0, state |-> <<>>]

IdSeq(nodes) == [i \in DOMAIN nodes |-> nodes[i].id]
Concat(seqs) == FlattenSeq(seqs)

-----------------------------------------------------------------------------
(* The walks.  A layout's or a kind's own nodes come first, then state's. *)

IsLayout(n) == n.kind = "layout"
ChildNodes(n) == n.kids \o n.state

RECURSIVE Subnodes(_)
Subnodes(n) ==
    <<n>> \o Concat([i \in DOMAIN ChildNodes(n) |-> Subnodes(ChildNodes(n)[i])])

AllNodeIds(n) == IdSeq(Subnodes(n))
IdSet(n) == ToSet(AllNodeIds(n))

(* What a walk finds is a sequence of at most one node: the first. *)
FirstOf(nodes) == IF nodes = <<>> THEN <<>> ELSE <<Head(nodes)>>
FindNode(n, target) == FirstOf(SelectSeq(Subnodes(n), LAMBDA m : m.id = target))
FindLayoutParent(n, target) ==
    FirstOf(SelectSeq(Subnodes(n),
        LAMBDA m : IsLayout(m) /\ target \in ToSet(IdSeq(m.kids))))

IsAncestor(ancestor, descendant, root) ==
    \E a \in ToSet(FindNode(root, ancestor)) :
        \E c \in ToSet(ChildNodes(a)) : descendant \in IdSet(c)

(* The tree with its first node of an id replaced: find_node_mut, written. *)
RECURSIVE Put(_, _, _)
Put(n, target, new) ==
    LET cs == ChildNodes(n)
        holding == {i \in DOMAIN cs : target \in IdSet(cs[i])}
    IN  IF n.id = target THEN new
        ELSE IF holding = {} THEN n
        ELSE LET i == Min(holding)
                 written == [cs EXCEPT ![i] = Put(@, target, new)]
             IN  [n EXCEPT !.kids = SubSeq(written, 1, Len(n.kids)),
                           !.state = SubSeq(written, Len(n.kids) + 1, Len(cs))]

RECURSIVE Depth(_)
Depth(n) == 1 + Max({0} \cup {Depth(c) : c \in ToSet(ChildNodes(n))})
Count(n) == Len(Subnodes(n))

-----------------------------------------------------------------------------
(* The ops.  A result is a tree or the code it is refused with. *)

Done(tree) == [ok |-> TRUE, tree |-> tree]
Refused(code) == [ok |-> FALSE, code |-> code]

(* An op that rewrites one node in place, whatever the node. *)
Rewrite(root, target, New(_)) ==
    LET found == FindNode(root, target)
    IN  IF found = <<>> THEN Refused("NodeNotFound")
        ELSE Done(Put(root, target, New(found[1])))

EditNode(root, op) ==
    Rewrite(root, op.target, LAMBDA n :
        [n EXCEPT !.kind = op.kind, !.own = op.own, !.kids = op.kids])
UpdateProp(root, op) ==
    Rewrite(root, op.target, LAMBDA n : [n EXCEPT !.own = op.value])
UpdateStyle(root, op) ==
    Rewrite(root, op.target, LAMBDA n :
        [n EXCEPT !.tone = op.style.tone, !.voice = op.style.voice])
PatchStyle(root, op) ==
    Rewrite(root, op.target, LAMBDA n : op.style @@ n)
UpdateAccessibility(root, op) ==
    Rewrite(root, op.target, LAMBDA n : [n EXCEPT !.access = op.value])
UpdateTooltip(root, op) ==
    Rewrite(root, op.target, LAMBDA n : [n EXCEPT !.tooltip = op.value])
UpdateState(root, op) ==
    Rewrite(root, op.target, LAMBDA n : [n EXCEPT !.state = op.state])

InsertChild(root, op) ==
    LET parent == FindNode(root, op.parent)
    IN  IF parent = <<>> THEN Refused("ParentNotFound")
        ELSE IF ~IsLayout(parent[1]) THEN Refused("ChildlessKind")
        ELSE IF IdSet(op.child) \cap IdSet(root) # {} THEN Refused("DuplicateNodeId")
        ELSE Done(Put(root, op.parent,
                               [parent[1] EXCEPT !.kids = Append(@, op.child)]))

(* Mutant: of children that repeat the id, the first alone goes. *)
OthersAfterFirst(id, kids) ==
    LET named == {i \in DOMAIN kids : kids[i].id = id}
    IN  IF named = {} THEN kids ELSE RemoveAt(kids, Min(named))

Others(id, kids) == SelectSeq(kids, LAMBDA c : c.id # id)

RemoveNode(root, op) ==
    LET parent == FindLayoutParent(root, op.target)
        held == FindNode(root, parent[1].id)[1]
    IN  IF root.id = op.target THEN Refused("KindMismatch")
        ELSE IF parent = <<>> THEN Refused("NodeNotFound")
        ELSE IF ~IsLayout(held) THEN Refused("ChildlessKind")
        ELSE Done(Put(root, held.id, [held EXCEPT !.kids = Others(op.target, @)]))

MoveNode(root, op) ==
    LET moving == FindNode(root, op.target)
        newParent == FindNode(root, op.parent)
        removed == RemoveNode(root, op)
    IN  IF op.target = op.parent THEN Refused("KindMismatch")
        ELSE IF IsAncestor(op.target, op.parent, root) THEN Refused("KindMismatch")
        ELSE IF moving = <<>> THEN Refused("NodeNotFound")
        ELSE IF newParent = <<>> THEN Refused("ParentNotFound")
        ELSE IF ~IsLayout(newParent[1]) THEN Refused("ChildlessKind")
        ELSE IF ~removed.ok THEN removed
        ELSE InsertChild(removed.tree,
                         [parent |-> op.parent, child |-> moving[1]])

(* order must be a permutation of the ids the parent's children have. *)
ReorderChildren(root, op) ==
    LET parent == FindNode(root, op.parent)
        kids == parent[1].kids
        Times(id, ids) == Cardinality({i \in DOMAIN ids : ids[i] = id})
        Kid(id) == Head(SelectSeq(kids, LAMBDA c : c.id = id))
    IN  IF parent = <<>> THEN Refused("ParentNotFound")
        ELSE IF ~IsLayout(parent[1]) THEN Refused("ChildlessKind")
        ELSE IF \E id \in ToSet(op.order) \cup ToSet(IdSeq(kids)) :
                 Times(id, op.order) # Times(id, IdSeq(kids))
             THEN Refused("OrderingMismatch")
        ELSE Done(Put(root, op.parent, [parent[1] EXCEPT
                 !.kids = [i \in DOMAIN op.order |-> Kid(op.order[i])]]))

(* One op, a Batch all or nothing: apply_one. *)
RECURSIVE ApplyOne(_, _)
ApplyOne(root, op) ==
    CASE op.op = "EditNode" -> EditNode(root, op)
      [] op.op = "UpdateProp" -> UpdateProp(root, op)
      [] op.op = "UpdateStyle" -> UpdateStyle(root, op)
      [] op.op = "PatchStyle" -> PatchStyle(root, op)
      [] op.op = "UpdateAccessibility" -> UpdateAccessibility(root, op)
      [] op.op = "UpdateTooltip" -> UpdateTooltip(root, op)
      [] op.op = "UpdateState" -> UpdateState(root, op)
      [] op.op = "InsertChild" -> InsertChild(root, op)
      [] op.op = "RemoveNode" -> RemoveNode(root, op)
      [] op.op = "MoveNode" -> MoveNode(root, op)
      [] op.op = "ReorderChildren" -> ReorderChildren(root, op)
      [] op.op = "ReplaceRoot" -> Done(op.node)
      [] op.op = "Batch" ->
           FoldLeft(LAMBDA acc, member :
                        LET next == ApplyOne(acc.tree, member)
                        IN  IF ~acc.ok THEN acc
                            ELSE IF next.ok THEN next
                            ELSE Refused("BatchAborted"),
                    Done(root), op.ops)

-----------------------------------------------------------------------------
(* apply: the op, then the limits if it can grow the tree, then the ids. *)

RECURSIVE InsertedNodes(_)
InsertedNodes(op) ==
    CASE op.op = "InsertChild" -> <<op.child>>
      [] op.op = "ReplaceRoot" -> <<op.node>>
      [] op.op = "EditNode" -> op.kids
      [] op.op = "UpdateState" -> op.state
      [] op.op = "Batch" ->
           Concat([i \in DOMAIN op.ops |-> InsertedNodes(op.ops[i])])
      [] OTHER -> <<>>

RECURSIVE OpCanGrow(_)
OpCanGrow(op) ==
    \/ op.op = "MoveNode"
    \/ op.op = "Batch" /\ \E i \in DOMAIN op.ops : OpCanGrow(op.ops[i])
    \/ InsertedNodes(op) # <<>>

WithinLimits(tree) == Depth(tree) <= MaxDepth /\ Count(tree) <= MaxNodes

(* No id of the installed subtrees is held twice in the result. *)
InstalledIdsUnique(installed, result) ==
    LET ids == AllNodeIds(result)
    IN  \A i \in DOMAIN installed : \A id \in IdSet(installed[i]) :
            Cardinality({j \in DOMAIN ids : ids[j] = id}) <= 1

Guarded(op, r) ==
    IF ~r.ok THEN r
    ELSE IF OpCanGrow(op) /\ ~WithinLimits(r.tree) THEN Refused("LimitExceeded")
    ELSE IF ~InstalledIdsUnique(InsertedNodes(op), r.tree) THEN
           Refused("DuplicateNodeId")
    ELSE r
Apply(tree, op) == Guarded(op, ApplyOne(tree, op))

(* A script of ops, each applied to what the one before it made. *)
ApplyAll(tree, ops) ==
    FoldLeft(LAMBDA acc, op : IF acc.ok THEN Apply(acc.tree, op) ELSE acc,
             Done(tree), ops)
=============================================================================
