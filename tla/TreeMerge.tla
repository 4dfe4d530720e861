----------------------------- MODULE TreeMerge ------------------------------
(***************************************************************************)
(* The facet-refined three-way merge, src/src/dag/merge.rs.  Every node of *)
(* the base is merged facet by facet with its counterparts; a facet changed*)
(* on one side takes that side's value, one changed differently on both is *)
(* a conflict.  o is the base node throughout, a and b the sides.  The     *)
(* conflicts are a set: the code sorts them before anything reads them.    *)
(***************************************************************************)
EXTENDS TreeOps

(* The children facet: only a layout kind has one. *)
ChildrenOf(n) == IF IsLayout(n) THEN n.kids ELSE <<>>
IdsOf(n) == IdSeq(ChildrenOf(n))
WithChildren(n, kids) == IF IsLayout(n) THEN [n EXCEPT !.kids = kids] ELSE n

(* A facet as the merge compares it: a kind without its layout children.   *)
KindCanonical(n) ==
    [kind |-> n.kind, own |-> n.own, kids |-> WithChildren(n, <<>>).kids]
Facets == StyleFields \cup {"kind", "access", "state"}
FacetOf(n, f) == IF f = "kind" THEN KindCanonical(n) ELSE n[f]

Diverged(x, y, z) == y # x /\ z # x /\ y # z
(* Mutant: only the first side's change is looked at. *)
PickIgnoresB(x, y, z) == IF Diverged(x, y, z) THEN x ELSE y
Pick(x, y, z) ==
    IF Diverged(x, y, z) THEN x ELSE IF y # x THEN y ELSE z

(* A refusal and its two sides, kept as the nodes whose facet is contended. *)
Conflict(id, facet, class, a, b) ==
    [id |-> id, facet |-> facet, class |-> class, a |-> a, b |-> b]

FacetConflicts(o, a, b) ==
    {Conflict(o.id, f, "ConcurrentEdit", a, b) :
        f \in {g \in Facets :
                  Diverged(FacetOf(o, g), FacetOf(a, g), FacetOf(b, g))}}

(* The node with every facet but the children picked.  Its tooltip, like   *)
(* its visible and its fallback, is the default whatever the sides hold.   *)
MergeFacets(o, a, b) ==
    LET picked == [f \in Facets |->
                      Pick(FacetOf(o, f), FacetOf(a, f), FacetOf(b, f))]
    IN  [id |-> o.id, kind |-> picked["kind"].kind, own |-> picked["kind"].own,
         kids |-> picked["kind"].kids, tone |-> picked["tone"],
         voice |-> picked["voice"], access |-> picked["access"], tooltip |-> 0,
         state |-> picked["state"]]

(* head is base with nothing removed and nothing reordered. *)
IsPureAddition(base, head) ==
    SelectSeq(head, LAMBDA id : id \in ToSet(base)) = base
Sorted(ids) == SelectSeq(IdOrder, LAMBDA id : id \in ids)

(* The merged child ids, and whether the sides cannot both be had. *)
DisjointInserts(o, a, b) ==
    /\ IsPureAddition(o, a)
    /\ IsPureAddition(o, b)
    /\ ToSet(a) \cap ToSet(b) = ToSet(o)
MergeOrder(o, a, b) ==
    IF a = o THEN b
    ELSE IF b = o \/ a = b THEN a
    ELSE IF DisjointInserts(o, a, b)
         THEN o \o Sorted((ToSet(a) \cup ToSet(b)) \ ToSet(o))
    ELSE o
OrderClash(o, a, b) ==
    a # o /\ b # o /\ a # b /\ ~DisjointInserts(o, a, b)

KidNamed(n, id) ==
    FirstOf(SelectSeq(ChildrenOf(n), LAMBDA c : c.id = id))

(* Mutant: a child both sides inserted is the first side's, unasked. *)
MergeInsertTakesA(ka, kb) ==
    [node |-> IF ka # <<>> THEN ka[1] ELSE kb[1], conflicts |-> {}]

(* A child both sides inserted: agreement, or a refusal naming its id. *)
MergeInsert(ka, kb) ==
    [node |-> IF ka # <<>> THEN ka[1] ELSE kb[1],
     conflicts |-> IF ka = <<>> \/ kb = <<>> \/ ka = kb THEN {}
                   ELSE {Conflict(ka[1].id, "insert", "ConcurrentEdit",
                                  ka[1], kb[1])}]

(* merge3: a child one side lacks is merged as if that side had left it.   *)
RECURSIVE Merge3(_, _, _)
Merge3(o, a, b) ==
    LET order == MergeOrder(IdsOf(o), IdsOf(a), IdsOf(b))
        Or(kid, base) == IF kid = <<>> THEN base[1] ELSE kid[1]
        Child(id) ==
            LET ko == KidNamed(o, id)
                ka == KidNamed(a, id)
                kb == KidNamed(b, id)
            IN  IF ko = <<>> THEN MergeInsert(ka, kb)
                ELSE Merge3(ko[1], Or(ka, ko), Or(kb, ko))
        children == [i \in DOMAIN order |-> Child(order[i])]
    IN  [node |-> WithChildren(MergeFacets(o, a, b),
                               [i \in DOMAIN order |-> children[i].node]),
         conflicts |->
             FacetConflicts(o, a, b)
             \cup (IF OrderClash(IdsOf(o), IdsOf(a), IdsOf(b))
                   THEN {Conflict(o.id, "children", "ReorderVsStructural", a, b)}
                   ELSE {})
             \cup UNION {children[i].conflicts : i \in DOMAIN order}]

(* The merged tree, when nothing conflicts. *)
Merge3Way(base, a, b) ==
    LET m == Merge3(base, a, b)
    IN  IF m.conflicts = {} THEN Done(m.node)
        ELSE [ok |-> FALSE, conflicts |-> m.conflicts]
=============================================================================
