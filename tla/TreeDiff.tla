------------------------------ MODULE TreeDiff ------------------------------
(***************************************************************************)
(* The structural diff, src/src/diff/mod.rs: the op script from one tree   *)
(* to another.  Matched nodes are walked together; the shallowest pair     *)
(* that differs in more than style, traits and what its children became is *)
(* replaced whole, in its own seat.                                        *)
(***************************************************************************)
EXTENDS TreeOps

(* PatchStyle of the fields that moved, UpdateStyle when they all did. *)
StyleEdit(a, b) ==
    LET moved == {f \in StyleFields : a[f] # b[f]}
    IN  IF moved = {} THEN <<>>
        ELSE <<[op |-> IF moved = StyleFields THEN "UpdateStyle"
                       ELSE "PatchStyle",
                target |-> a.id, style |-> [f \in moved |-> b[f]]]>>

TraitEdits(a, b) ==
    (IF a.access = b.access THEN <<>>
     ELSE <<[op |-> "UpdateAccessibility", target |-> b.id,
             value |-> b.access]>>)
    \o (IF a.tooltip = b.tooltip THEN <<>>
        ELSE <<[op |-> "UpdateTooltip", target |-> b.id,
                value |-> b.tooltip]>>)

(* a with b's style and traits: what still differs from b is the rest. *)
Faceted(a, b) == [a EXCEPT !.tone = b.tone, !.voice = b.voice,
                           !.access = b.access, !.tooltip = b.tooltip]
Stripped(n) == IF IsLayout(n) THEN [n EXCEPT !.kids = <<>>] ELSE n
OwnContentSame(a, b) == Stripped(a) = Stripped(b)

(* Mutant: the re-inserted node stays where InsertChild appends it. *)
ReplaceAtTheEnd(b, parent, order) ==
    <<[op |-> "RemoveNode", target |-> b.id],
      [op |-> "InsertChild", parent |-> parent, child |-> b]>>

(* The whole-node replace in a seat: its place among order's ids. *)
ReplaceInSeat(b, parent, order) ==
    <<[op |-> "RemoveNode", target |-> b.id],
      [op |-> "InsertChild", parent |-> parent, child |-> b]>>
    \o (IF Last(order) = b.id THEN <<>>
        ELSE <<[op |-> "ReorderChildren", parent |-> parent,
                order |-> order]>>)

(* parent is the seat's node id, order its child ids; at the root order is  *)
(* empty.                                                                   *)
RECURSIVE DiffNode(_, _, _, _)
DiffNode(a, b, parent, order) ==
    LET faceted == Faceted(a, b)
        edits == StyleEdit(a, b) \o TraitEdits(a, b)
        recurse == /\ IsLayout(a) /\ IsLayout(b)
                   /\ OwnContentSame(faceted, b)
                   /\ IdSeq(a.kids) = IdSeq(b.kids)
    IN  IF a = b THEN <<>>
        ELSE IF faceted = b THEN edits
        ELSE IF recurse THEN
            edits \o Concat([i \in DOMAIN a.kids |->
                DiffNode(a.kids[i], b.kids[i], a.id, IdSeq(b.kids))])
        ELSE IF order = <<>> THEN <<[op |-> "ReplaceRoot", node |-> b]>>
        ELSE ReplaceInSeat(b, parent, order)

Diff(before, after) ==
    IF before.id # after.id THEN <<[op |-> "ReplaceRoot", node |-> after]>>
    ELSE DiffNode(before, after, before.id, <<>>)
=============================================================================
