----------------------------- MODULE MCOutlines -----------------------------
(* A root over two containers, one of them holding a leaf. *)
EXTENDS TreeEngine, TLC

MCIdOrder == <<"p", "q", "r", "x", "y">>
MCId == ToSet(MCIdOrder)

Alone(id, kind) == <<>> :> [id |-> id, kind |-> kind, size |-> [s \in Slots |-> 0]]
Leaf(id) == Alone(id, "leaf")
Box(id, group) == Regroup(Alone(id, "layout"), <<>>, "kids", group)

MCSeed == Box("r", <<Box("p", <<Leaf("x")>>), Box("q", <<>>)>>)

(* Leaves, a container that repeats an id, one that holds what the tree may. *)
MCNode == {Leaf("x"), Leaf("y"), Box("y", <<Leaf("x")>>), Box("p", <<Leaf("y"), Leaf("y")>>),
           Box("y", <<>>),
           MCSeed}

Edit_(target, kind, kids) == [op |-> "EditNode", target |-> target, kind |-> kind, kids |-> kids]
Insert_(parent, child) == [op |-> "InsertChild", parent |-> parent, child |-> child]
Remove_(target) == [op |-> "RemoveNode", target |-> target]
Move_(target, parent) == [op |-> "MoveNode", target |-> target, parent |-> parent]
Reorder_(parent, order) == [op |-> "ReorderChildren", parent |-> parent, order |-> order]
State_(target, state) == [op |-> "UpdateState", target |-> target, state |-> state]
Replace_(node) == [op |-> "ReplaceRoot", node |-> node]
Value_(target) == [op |-> "UpdateValue", target |-> target]

MCMember ==
  {Edit_(id, "layout", <<>>) : id \in {"q", "x"}}
  \cup {Edit_("q", "layout", <<Leaf("y"), Leaf("y")>>), Edit_("p", "switch", <<Leaf("x")>>),
        Edit_("q", "layout", <<Leaf("x")>>), Edit_("x", "layout", <<Leaf("y")>>)}
  \cup {State_("p", <<Leaf("y")>>), State_("x", <<Leaf("x"), Leaf("y")>>), State_("p", <<>>)}
  \cup {Insert_(id, Leaf("y")) : id \in {"q", "r"}}
  \cup {Insert_("q", Box("y", <<Leaf("x")>>)), Insert_("y", Leaf("x"))}
  \cup {Remove_(id) : id \in {"x", "y", "p"}}
  \cup {Move_("x", "q"), Move_("p", "q"), Move_("q", "p"), Move_("x", "y"), Move_("y", "p")}
  \cup {Reorder_("r", <<"q", "p">>), Reorder_("q", <<"y", "y">>)}
  \cup {Replace_(n) : n \in {MCSeed, Box("p", <<Leaf("y"), Leaf("y")>>)}}
  \cup {Value_("x")}

(* Twins brought in, one of them filled, and then copied over the other.     *)
MCTwins == <<Edit_("q", "layout", <<Box("y", <<>>), Box("y", <<>>)>>), Move_("x", "y"),
             Reorder_("q", <<"y", "y">>)>>

MCOp ==
  {<<m>> : m \in MCMember} \cup {<<m, n>> : m, n \in MCMember}
  \cup {MCTwins} \cup {Append(MCTwins, m) : m \in MCMember}
  \cup {Append(Append(MCTwins, m), n) :
          m \in {Remove_("y"), Edit_("y", "layout", <<>>), Move_("y", "p")},
          n \in {Remove_("x"), Move_("x", "p"), Insert_("q", Leaf("x"))}}

MCSeeds == {MCSeed}
=============================================================================
