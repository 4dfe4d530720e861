--------------------------- MODULE MCEdgeSession ---------------------------
(***************************************************************************)
(* Small instances of EdgeSession.  A tree is the sequence of ops that     *)
(* built it, so that two different histories never build the same tree and *)
(* any record applied twice, skipped or out of order shows.  The first op  *)
(* is refused on a tree it was the last to change.                         *)
(***************************************************************************)
EXTENDS EdgeSession, TLC

CONSTANTS Once, Twice, Wide

MCOp == {Once, Twice}

MCTree == UNION {[1 .. n -> MCOp] : n \in 0 .. MaxOps}

MCSeed == <<>>

MCApply(t, o) ==
  IF \/ Len(t) = MaxOps
     \/ t # <<>> /\ o = Once /\ t[Len(t)] = Once
  THEN NoTree
  ELSE Append(t, o)

(* ops::apply checks node depth and count, decode_node also bytes and JSON  *)
(* depth: when Wide, two applied ops can build a tree that does not decode. *)
MCDecodable ==
  IF Wide THEN {t \in MCTree : t # <<Twice, Twice>>} ELSE MCTree

HostSymmetry == Permutations(Host)
=============================================================================
