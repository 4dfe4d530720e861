--------------------------- MODULE TreePlacement ----------------------------
(***************************************************************************)
(* The placement algebra, src/src/ops/placement.rs: placed insert, move,   *)
(* nudge and the clone verbs, each of them the op it becomes or the error  *)
(* it is refused with before an op exists.  A target is [parent, at], where*)
(* at is [where: "Last" | "First"] or [where: "Before" | "After", anchor]. *)
(***************************************************************************)
EXTENDS TreeOps

Emit(op) == [ok |-> TRUE, op |-> op]

(* The destination's child ids, or apply's refusal of it. *)
ContainerChildren(root, parent) ==
    LET found == FindNode(root, parent)
    IN  IF found = <<>> THEN Refused("ParentNotFound")
        ELSE IF ~IsLayout(found[1]) THEN Refused("ChildlessKind")
        ELSE [ok |-> TRUE, ids |-> IdSeq(found[1].kids)]

MembershipWith(siblings, moved) ==
    Append(SelectSeq(siblings, LAMBDA id : id # moved), moved)

(* moved within order, which holds it, at the place asked for. *)
Reposition(order, moved, at) ==
    LET rest == SelectSeq(order, LAMBDA id : id # moved)
        anchors == {i \in DOMAIN rest : rest[i] = at.anchor}
        Seat(i) == [ok |-> TRUE, ids |-> InsertAt(rest, i, moved)]
    IN  IF at.where = "Last" THEN Seat(Len(rest) + 1)
        ELSE IF at.where = "First" THEN Seat(1)
        ELSE IF anchors = {} THEN Refused("UnknownAnchor")
        ELSE IF at.where = "Before" THEN Seat(Min(anchors))
        ELSE Seat(Min(anchors) + 1)

StructurallyPresent(root, id) ==
    root.id = id \/ FindLayoutParent(root, id) # <<>>

(* Mutant: a destination inside the node's own subtree is let through. *)
CanPlaceAllowsCycles(root, moved, target) ==
    LET siblings == ContainerChildren(root, target.parent)
    IN  IF ~StructurallyPresent(root, moved) THEN Refused("NodeNotFound")
        ELSE IF target.parent = moved THEN Refused("MoveIntoSelf")
        ELSE IF ~siblings.ok THEN siblings
        ELSE Reposition(MembershipWith(siblings.ids, moved), moved, target.at)
CanPlace(root, moved, target) ==
    LET siblings == ContainerChildren(root, target.parent)
    IN  IF ~StructurallyPresent(root, moved) THEN Refused("NodeNotFound")
        ELSE IF target.parent = moved THEN Refused("MoveIntoSelf")
        ELSE IF IsAncestor(moved, target.parent, root) THEN
               Refused("MoveIntoDescendant")
        ELSE IF ~siblings.ok THEN siblings
        ELSE Reposition(MembershipWith(siblings.ids, moved), moved,
                                 target.at)

(* The op that appends, followed by the order where appending is not it. *)
Placed(op, parent, appended, wanted) ==
    Emit(IF wanted = appended THEN op
         ELSE [op |-> "Batch", ops |-> <<op,
                 [op |-> "ReorderChildren", parent |-> parent,
                  order |-> wanted]>>])

PlaceOp(root, child, target) ==
    LET siblings == ContainerChildren(root, target.parent)
        appended == MembershipWith(siblings.ids, child.id)
        wanted == Reposition(appended, child.id, target.at)
    IN  IF ~siblings.ok THEN siblings
        ELSE IF IdSet(child) \cap IdSet(root) # {} THEN Refused("DuplicateId")
        ELSE IF ~wanted.ok THEN wanted
        ELSE Placed([op |-> "InsertChild", parent |-> target.parent,
                              child |-> child],
                             target.parent, appended, wanted.ids)

MoveOp(root, moved, target) ==
    LET siblings == ContainerChildren(root, target.parent)
        appended == MembershipWith(siblings.ids, moved)
        wanted == Reposition(appended, moved, target.at)
        allowed == CanPlace(root, moved, target)
    IN  IF ~allowed.ok THEN allowed
        ELSE Placed([op |-> "MoveNode", target |-> moved,
                     parent |-> target.parent],
                    target.parent, appended, wanted.ids)

(* The node exchanged with the sibling delta places away. *)
Exchange(parent, ids, i, j) ==
    IF j \notin DOMAIN ids THEN Refused("NudgeOutOfRange")
    ELSE Emit([op |-> "ReorderChildren", parent |-> parent.id,
               order |-> [ids EXCEPT ![i] = ids[j], ![j] = ids[i]]])
NudgeOp(root, id, delta) ==
    LET parent == FindLayoutParent(root, id)
        ids == IdSeq(parent[1].kids)
        i == Min({j \in DOMAIN ids : ids[j] = id})
    IN  IF root.id = id THEN Refused("CannotNudgeRoot")
        ELSE IF parent = <<>> THEN Refused("NodeNotFound")
        ELSE Exchange(parent[1], ids, i, i + delta)

-----------------------------------------------------------------------------
(* The clone verbs.  A strategy mints the first id of its own sequence that *)
(* is not taken, as SequentialIds does; here the sequence is IdOrder's.     *)

RECURSIVE RewriteIds(_, _)
RewriteIds(n, rename) ==
    [n EXCEPT !.id = IF @ \in DOMAIN rename THEN rename[@] ELSE @,
              !.kids = [i \in DOMAIN @ |-> RewriteIds(@[i], rename)],
              !.state = [i \in DOMAIN @ |-> RewriteIds(@[i], rename)]]

(* incoming with a fresh id for each of its own the tree holds already; one *)
(* answer is <<>>: the model's ids ran out, which the code's never do.      *)
RemapForInsert(root, incoming) ==
    LET clashing == SelectSeq(AllNodeIds(incoming),
                              LAMBDA id : id \in IdSet(root))
        free == SelectSeq(IdOrder,
                    LAMBDA id : id \notin IdSet(root) \cup IdSet(incoming))
        Place(id) == Min({i \in DOMAIN clashing : clashing[i] = id})
    IN  IF Len(free) < Len(clashing) THEN <<>>
        ELSE <<RewriteIds(incoming,
                   [id \in ToSet(clashing) |-> free[Place(id)]])>>

PasteOp(root, incoming, target) ==
    PlaceOp(root, RemapForInsert(root, incoming)[1], target)

DuplicateOp(root, source, target) ==
    LET sub == FindNode(root, source)
    IN  IF sub = <<>> THEN Refused("NodeNotFound")
        ELSE PasteOp(root, sub[1], target)
=============================================================================
