---------------------------- MODULE MCRevisions -----------------------------
(* A root over two containers, one of them holding a leaf. *)
EXTENDS Revisions

MCIdOrder == <<"p", "q", "r", "x", "y", "z">>
Leaf(id, own) == Node(id, "leaf", own, <<>>)
MCBase ==
    Node("r", "layout", 0,
         <<Node("p", "layout", 0, <<Leaf("x", 0)>>), Node("q", "layout", 0, <<>>)>>)
MCClips == {Leaf("y", 1), Leaf("y", 2)}

Edited(target, kind, kids) ==
    [op |-> "EditNode", target |-> target, kind |-> kind, own |-> 1, kids |-> kids]
Removed(target) == [op |-> "RemoveNode", target |-> target]
Inserted(parent, child) ==
    [op |-> "InsertChild", parent |-> parent, child |-> child]
Batch(ops) == [op |-> "Batch", ops |-> ops]

(* Every structural op everywhere; the facets of the leaf and of its holder; *)
(* batches whose members leave an id twice, or too deep, on the way.         *)
MCOps(t) ==
    LET ids == IdSet(t)
    IN  {Edited(id, "leaf", <<>>) : id \in ids \ {"r"}}
        \cup {Edited(id, "layout", <<Leaf("y", 1)>>) : id \in {"p", "x"}}
        \cup {Edited(id, "switch", <<Leaf("z", 1)>>) : id \in {"p", "x"}}
        \cup [op : {"UpdateProp"}, target : {"x"}, value : {1, 2}]
        \cup [op : {"PatchStyle"}, target : {"x"},
              style : {[tone |-> 1], [voice |-> 1]}]
        \cup [op : {"UpdateStyle"}, target : {"x"},
              style : {[tone |-> 2, voice |-> 1]}]
        \cup [op : {"UpdateAccessibility", "UpdateTooltip"}, target : {"x"},
              value : {1}]
        \cup [op : {"UpdateState"}, target : {"p"}, state : {<<Leaf("y", 1)>>}]
        \cup {Inserted(id, Leaf("y", 1)) : id \in ids}
        \cup {Inserted("p", Leaf("y", 2))}
        \cup {Removed(id) : id \in ids}
        \cup [op : {"MoveNode"}, target : ids, parent : ids]
        \cup [op : {"ReorderChildren"}, parent : {"r"}, order : {<<"q", "p">>}]
        \cup {Batch(<<Edited("q", "layout", <<Leaf("x", 2)>>), Removed("x")>>),
              Batch(<<Inserted("x", Leaf("y", 1)), Removed("y")>>),
              Batch(<<Removed("p"), Inserted("q", MCBase.kids[1])>>)}

MCMaxEdits == [a |-> 2, b |-> 1]
=============================================================================
