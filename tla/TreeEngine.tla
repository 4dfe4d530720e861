----------------------------- MODULE TreeEngine -----------------------------
(***************************************************************************)
(* The two models of the engine of src/ops/mod.rs side by side: TreeOps',  *)
(* which walks nested nodes as the code does, and Outlines', which places  *)
(* them.  The outline is the state; the engine is tried on the tree it     *)
(* lays out, with every op a host may send.                                *)
(***************************************************************************)
EXTENDS Outlines

CONSTANT IdOrder   \* every node id, in ordinal byte order

Engine == INSTANCE TreeOps

-----------------------------------------------------------------------------
(* A tree of nodes and its outline, each from the other. *)

RECURSIVE NodeAt(_, _)
NodeAt(t, p) ==
  LET In(s) == [i \in 1 .. t[p].size[s] |-> NodeAt(t, Child(p, s, i))]
  IN  [Engine!Node(t[p].id, t[p].kind, 0, In("kids")) EXCEPT !.state = In("state")]

TreeOf(t) == NodeAt(t, <<>>)
TreesOf(group) == [i \in DOMAIN group |-> TreeOf(group[i])]

ChildrenIn(n, s) == IF s = "kids" THEN n.kids ELSE n.state

RECURSIVE Laid(_, _)
Laid(n, p) ==
  {<<p, n>>} \cup
    UNION {UNION {Laid(ChildrenIn(n, s)[i], Child(p, s, i)) : i \in DOMAIN ChildrenIn(n, s)} :
             s \in Slots}

OutlineOf(n) ==
  LET at == Laid(n, <<>>)
      Node(p) == (CHOOSE l \in at : l[1] = p)[2]
  IN  [p \in {l[1] : l \in at} |->
         [id |-> Node(p).id, kind |-> Node(p).kind,
          size |-> [s \in Slots |-> Len(ChildrenIn(Node(p), s))]]]

-----------------------------------------------------------------------------
(* A member as the op it is, and an op as a host may write it: alone, in a   *)
(* batch, or in a batch whose first members are a batch of their own.        *)

OpOf(m) ==
  CASE m.op = "EditNode" ->
         [op |-> m.op, target |-> m.target, kind |-> m.kind, own |-> 0, kids |-> TreesOf(m.kids)]
    [] m.op = "UpdateState" -> [op |-> m.op, target |-> m.target, state |-> TreesOf(m.state)]
    [] m.op = "UpdateValue" -> [op |-> "UpdateProp", target |-> m.target, value |-> 0]
    [] m.op = "InsertChild" -> [op |-> m.op, parent |-> m.parent, child |-> TreeOf(m.child)]
    [] m.op = "ReplaceRoot" -> [op |-> m.op, node |-> TreeOf(m.node)]
    [] OTHER -> m

Batch(ops) == [op |-> "Batch", ops |-> ops]

Written(op) ==
  LET members == [i \in DOMAIN op |-> OpOf(op[i])]
      Nested == Batch(<<Batch(Front(members)), Last(members)>>)
  IN  {Batch(members)} \cup {CASE Len(op) = 1 -> members[1]
                               [] Len(op) = 2 -> Batch(members)
                               [] OTHER -> Nested}

-----------------------------------------------------------------------------
(* The engine's walks, which stop at the first node they find and rebuild    *)
(* what they pass, do to the tree what the outline's op does to its places,  *)
(* and refuse what it refuses: each op through every guard, on every tree    *)
(* that ops make.  So what is proved of outlines holds of the engine's trees.*)
EngineAgrees ==
  \A op \in Op : \A written \in Written(op) :
    LET r == Engine!Apply(TreeOf(outline), written)
    IN  Apply(outline, op) = IF r.ok THEN OutlineOf(r.tree) ELSE NoTree
=============================================================================
