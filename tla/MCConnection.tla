---------------------------- MODULE MCConnection ----------------------------
(***************************************************************************)
(* Small instances of Connection.  A tree is the sequence of ops that      *)
(* built it, so a frame skipped, repeated or out of order always shows.    *)
(***************************************************************************)
EXTENDS Connection, TLC

CONSTANTS Root, Leaf, Grow, Mark, MountApp, Hide, MaxLen

(* Grow inserts the leaf, with a mount of the granted "clock" in it, and      *)
(* MountApp a mount of "app", which is not granted; Hide is an UpdateState    *)
(* whose state block holds such a mount.  Mark stands for every op that       *)
(* brings no mount, a MoveNode of the hidden one to the children included.    *)
MCOp == {Grow, Mark, MountApp, Hide}

MCTree == UNION {[1 .. n -> MCOp] : n \in 0 .. MaxLen}

MCSeed == <<>>

In(o, t) == \E i \in 1 .. Len(t) : t[i] = o

(* The leaf can be inserted once. *)
MCApply(t, o) ==
  IF Len(t) = MaxLen \/ (o = Grow /\ In(Grow, t)) THEN NoTree ELSE Append(t, o)

MCNode == {Root, Leaf}

(* Only an inserted leaf exists; it takes clicks, the root takes submits. *)
MCHas(t, n) == n = Root \/ In(Grow, t)
MCLegitimate(t, n, e) ==
  \/ n = Leaf /\ e = "click"
  \/ n = Root /\ e = "submit"

MCEvent == {"click", "submit"}

MCAnswers == {Denied, <<>>, <<Grow>>, <<Mark>>, <<Mark, MountApp>>, <<Mark, Hide>>}

(* collect_op_missing audits the nodes of InsertChild, ReplaceRoot, EditNode *)
(* and Batch, and passes every other op, UpdateState among them.             *)
MCNeeds(o) ==
  CASE o = Grow -> {"clock"}
    [] o = MountApp -> {"app"}
    [] OTHER -> {}

MCStateNeeds(o) == IF o = Hide THEN {"app"} ELSE {}

(* audit_mounts walks children and state blocks alike. *)
MCMounted(t) == UNION {MCNeeds(t[i]) \cup MCStateNeeds(t[i]) : i \in 1 .. Len(t)}
=============================================================================
