----------------------------- MODULE Revisions ------------------------------
(***************************************************************************)
(* Two revisions of one tree: each side is edited by tree ops, each step   *)
(* through apply, and a merge that succeeds and installs becomes the base  *)
(* of both.  What the engine, the merge, the diff and the placement verbs  *)
(* promise is stated of every base and every pair of sides reached.        *)
(***************************************************************************)
EXTENDS TreeMerge, TreeDiff, TreePlacement

CONSTANTS
    Base,         \* the tree both sides start from
    Ops(_),       \* the ops tried on a tree
    Clips,        \* subtrees from elsewhere, to insert and paste
    MaxEdits      \* edits of each side

ASSUME RevisionsAssumption == WithinLimits(Base) /\ IsInjective(AllNodeIds(Base))

VARIABLES
    rev,   \* the base and the two sides
    edits  \* how many edits each side has had

vars == <<rev, edits>>
Sides == {"a", "b"}

Init ==
    /\ rev = [base |-> Base, a |-> Base, b |-> Base]
    /\ edits = [s \in Sides |-> 0]

(* A host applies an op to its side; a refused op leaves it as it was. *)
Edit(s) ==
    /\ edits[s] < MaxEdits[s]
    /\ \E op \in Ops(rev[s]) :
          LET r == Apply(rev[s], op)
          IN  r.ok /\ rev' = [rev EXCEPT ![s] = r.tree]
    /\ edits' = [edits EXCEPT ![s] = @ + 1]

(* The sides are merged, and a tree that apply takes replaces all three. *)
SameRoot == rev.a.id = rev.base.id /\ rev.b.id = rev.base.id
Join ==
    /\ SameRoot
    /\ LET m == Merge3Way(rev.base, rev.a, rev.b)
           r == Apply(rev.base, [op |-> "ReplaceRoot", node |-> m.tree])
       IN  m.ok /\ r.ok /\ rev' = [t \in DOMAIN rev |-> r.tree]
    /\ UNCHANGED edits

Next == Join \/ \E s \in Sides : Edit(s)

Spec == Init /\ [][Next]_vars

-----------------------------------------------------------------------------
(* The trees *)

(* Every tree is built as the engine builds nodes: only a kind that holds  *)
(* nodes has some, and a state block has at most its two alternatives.     *)
NodeOK(n) ==
    /\ n.id \in Ids /\ n.kind \in Kinds
    /\ {n.own, n.tone, n.voice, n.access, n.tooltip} \subseteq Nat
    /\ n.kind = "leaf" => n.kids = <<>>
    /\ Len(n.state) <= 2
TypeOK ==
    /\ \A t \in DOMAIN rev : \A n \in ToSet(Subnodes(rev[t])) : NodeOK(n)
    /\ \A s \in Sides : edits[s] \in 0..MaxEdits[s]

-----------------------------------------------------------------------------
(* The merge *)

(* A tree without its tooltips, which every merged node loses.             *)
RECURSIVE Untipped(_)
Untipped(n) == [n EXCEPT !.tooltip = 0,
                         !.kids = [i \in DOMAIN @ |-> Untipped(@[i])],
                         !.state = [i \in DOMAIN @ |-> Untipped(@[i])]]

(* Which side came first changes nothing: the same tree, or the same       *)
(* conflicts with their two sides exchanged (dag/merge.rs).                *)
MergeIsSymmetric ==
    SameRoot =>
        LET m == Merge3Way(rev.base, rev.a, rev.b)
            n == Merge3Way(rev.base, rev.b, rev.a)
        IN  IF m.ok THEN n = m
            ELSE ~n.ok /\ n.conflicts =
                     {[c EXCEPT !.a = c.b, !.b = c.a] : c \in m.conflicts}

(* A side merged with itself, or with a side that did nothing, is that     *)
(* side, whatever mixture of edits, moves, inserts and kind swaps made it. *)
MergeAgrees ==
    SameRoot /\ rev.b = rev.base =>
        \A other \in {rev.a, rev.b} :
            LET m == Merge3Way(rev.base, rev.a, other)
            IN  m.ok /\ Untipped(m.tree) = Untipped(rev.a)

(* The layout nodes above a node, from the root down; empty for a node no  *)
(* structural op can reach.                                                *)
RECURSIVE Path(_, _)
Path(tree, id) ==
    LET parent == FindLayoutParent(tree, id)
    IN  IF tree.id = id THEN <<id>>
        ELSE IF parent = <<>> \/ Path(tree, parent[1].id) = <<>> THEN <<>>
        ELSE Append(Path(tree, parent[1].id), id)
Aligned(id) ==
    /\ Path(rev.base, id) # <<>>
    /\ \A s \in Sides : Path(rev[s], id) = Path(rev.base, id)

(* z is what a merge of y1 and y2 over x may answer: a change both agree   *)
(* on, or the change of the one side that made any.                        *)
OneSided(x, y1, y2, z) ==
    \/ y1 = x /\ z = y2
    \/ y2 = x /\ z = y1
    \/ y1 = y2 /\ z = y1

(* A merge that succeeds keeps every change made to a node all three trees *)
(* hold in one place, and a facet both sides changed to different values   *)
(* makes it refuse; where it refuses, both sides did change what it names. *)
(* The children of a layout are the list of the side that changed it, or   *)
(* the base's with both sides' inserts; only where the node ends as another*)
(* kind can a list be lost, and that is silent (dag/merge.rs:704).         *)
MergeTakesEachChange ==
    SameRoot =>
        LET m == Merge3Way(rev.base, rev.a, rev.b)
            At(tree, id) == FindNode(tree, id)[1]
            Kept(id, o, a, b, z) ==
                /\ \A f \in Facets :
                      OneSided(FacetOf(o, f), FacetOf(a, f), FacetOf(b, f),
                               FacetOf(z, f))
                /\ \/ ~IsLayout(z)
                   \/ OneSided(IdsOf(o), IdsOf(a), IdsOf(b), IdsOf(z))
                   \/ /\ ToSet(IdsOf(z)) = ToSet(IdsOf(a)) \cup ToSet(IdsOf(b))
                      /\ ToSet(IdsOf(a)) \cap ToSet(IdsOf(b)) = ToSet(IdsOf(o))
            Contended(c) ==
                CASE c.facet \in Facets ->
                       Diverged(FacetOf(At(rev.base, c.id), c.facet),
                                FacetOf(At(rev.a, c.id), c.facet),
                                FacetOf(At(rev.b, c.id), c.facet))
                  [] c.facet = "children" ->
                       Diverged(IdsOf(At(rev.base, c.id)),
                                IdsOf(At(rev.a, c.id)), IdsOf(At(rev.b, c.id)))
                  [] c.facet = "insert" ->
                       /\ c.id \in IdSet(rev.a) \cap IdSet(rev.b)
                       /\ At(rev.a, c.id) # At(rev.b, c.id)
        IN  IF m.ok
            THEN \A id \in {i \in IdSet(rev.base) : Aligned(i)} :
                     /\ id \in IdSet(m.tree)
                     /\ Kept(id, At(rev.base, id), At(rev.a, id),
                             At(rev.b, id), At(m.tree, id))
            ELSE \A c \in m.conflicts : Contended(c)

(* Nothing of either side is lost and nothing is made up (dag/merge.rs).   *)
MergeIsFaithful == TypeOK /\ MergeAgrees /\ MergeTakesEachChange

-----------------------------------------------------------------------------
(* The placement verbs, tried on every tree one side makes of Base. *)

Ats(tree, parent) ==
    {[where |-> w] : w \in {"Last", "First"}}
    \cup [where : {"Before", "After"}, anchor : {parent} \cup
              UNION {ToSet(IdsOf(n)) : n \in ToSet(FindNode(tree, parent))}]
Targets(tree) ==
    UNION {[parent : {p}, at : Ats(tree, p)] : p \in Ids}

(* id is a child of the target's parent, where the target says, and taking *)
(* it away leaves what taking it away from the tree before leaves.         *)
InSeat(ids, id, at) ==
    \E i \in DOMAIN ids :
        /\ ids[i] = id
        /\ CASE at.where = "Last" -> i = Len(ids)
             [] at.where = "First" -> i = 1
             [] at.where = "Before" -> ids[i + 1] = at.anchor
             [] at.where = "After" -> ids[i - 1] = at.anchor
Rest(tree, removed) == IF removed.ok THEN removed.tree ELSE tree
Without(tree, id) == Rest(tree, RemoveNode(tree, [target |-> id]))
Seated(before, after, id, target) ==
    /\ InSeat(IdsOf(FindNode(after, target.parent)[1]), id, target.at)
    /\ Without(after, id) = Without(before, id)

(* An op a verb emits is applied and does what was asked, unless the tree  *)
(* would be over a limit, which the verbs do not look at.                  *)
Honoured(tree, r, id, target) ==
    IF r.ok THEN Seated(tree, r.tree, id, target) ELSE r.code = "LimitExceeded"

(* move and may are what MoveOp and CanPlace answer.                       *)
MoveAgrees(tree, move, may, id, target) ==
    LET bare == [op |-> "MoveNode", target |-> id, parent |-> target.parent]
    IN  IF move.ok THEN may.ok /\ Honoured(tree, Apply(tree, move.op), id, target)
        ELSE may = move /\ (may.code = "UnknownAnchor" \/ ~Apply(tree, bare).ok)

(* place is what a verb that inserts child answers.                        *)
InsertAgrees(tree, place, child, target) ==
    LET bare == [op |-> "InsertChild", parent |-> target.parent, child |-> child]
    IN  IF place.ok THEN Honoured(tree, Apply(tree, place.op), child.id, target)
        ELSE place.code = "UnknownAnchor" \/ ~Apply(tree, bare).ok

(* A clone is its original under ids the tree does not have.               *)
CloneAgrees(tree, sub, remapped, target) ==
    \A clone \in ToSet(remapped) :
        LET paste == IF FindNode(tree, sub.id) = <<sub>>
                     THEN DuplicateOp(tree, sub.id, target)
                     ELSE PasteOp(tree, sub, target)
            old == AllNodeIds(sub)
            new == AllNodeIds(clone)
            back == [id \in ToSet(new) |->
                        old[CHOOSE i \in DOMAIN new : new[i] = id]]
        IN  /\ ToSet(new) \cap IdSet(tree) = {}
            /\ RewriteIds(clone, back) = sub
            /\ InsertAgrees(tree, paste, clone, target)

(* A nudge moves something, and the opposite nudge undoes it.              *)
NudgeAgrees(tree, there, back) ==
    /\ there.ok /\ there.tree # tree
    /\ back.ok /\ Apply(there.tree, back.op) = Done(tree)

(* The verbs and the engine agree on every tree: nothing permitted that    *)
(* apply refuses, nothing refused that apply would do (placement.rs:92).   *)
PlacementAgrees ==
    (rev.base = Base /\ rev.b = Base) =>
        LET t == rev.a
        IN  /\ \A target \in Targets(t) :
                  /\ \A id \in Ids :
                        MoveAgrees(t, MoveOp(t, id, target),
                                   CanPlace(t, id, target), id, target)
                  /\ \A clip \in Clips :
                        InsertAgrees(t, PlaceOp(t, clip, target), clip, target)
                  /\ \A sub \in ToSet(Subnodes(t)) \cup Clips :
                        CloneAgrees(t, sub, RemapForInsert(t, sub), target)
            /\ \A id \in Ids, delta \in {1, -1, 2} :
                  \A nudge \in {n \in {NudgeOp(t, id, delta)} : n.ok} :
                      \A there \in {Apply(t, nudge.op)} :
                          NudgeAgrees(t, there, NudgeOp(there.tree, id, -delta))

-----------------------------------------------------------------------------
(* The diff *)

(* The node that holds an id, in whatever position. *)
Holders(tree, id) ==
    {n.id : n \in {m \in ToSet(Subnodes(tree)) :
                      id \in ToSet(IdSeq(ChildNodes(m)))}}
Rehomed(before, after) ==
    \E id \in IdSet(before) \cap IdSet(after) :
        Holders(before, id) # Holders(after, id)

(* A diff's script never ends anywhere but at the tree it was asked for,   *)
(* and it runs unless a node changed hands or a step of it, which removes  *)
(* and re-inserts, is over a limit on the way (diff/mod.rs).               *)
DiffNeverMisleads ==
    LET r == ApplyAll(rev.a, Diff(rev.a, rev.b))
    IN  IF r.ok THEN r.tree = rev.b
        ELSE r.code = "LimitExceeded" \/ Rehomed(rev.a, rev.b)

(* diff/mod.rs:193: apply(diff(before, after), before) == after, for every *)
(* pair of trees a host can hold.                                          *)
DiffAlwaysReplays == ApplyAll(rev.a, Diff(rev.a, rev.b)) = Done(rev.b)
=============================================================================
