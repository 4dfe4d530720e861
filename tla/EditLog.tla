------------------------------ MODULE EditLog ------------------------------
(***************************************************************************)
(* What an edit history promises whoever edits through it                  *)
(* (src/core/grid_edit.rs): a document with the documents undo would put   *)
(* back and the documents redo would.  An edit of a kind that cannot be    *)
(* undone forgets the past, every edit forgets the future, and no more     *)
(* than Depth documents of the past are kept.                              *)
(***************************************************************************)
EXTENDS Naturals, Sequences

CONSTANT Depth

VARIABLES
  past,      \* the documents undo would put back, the nearest first
  present,   \* the document
  future     \* the documents redo would put back, the nearest first

logVars == <<past, present, future>>

Kept(s) == SubSeq(s, 1, IF Len(s) < Depth THEN Len(s) ELSE Depth)

Init == past = <<>> /\ future = <<>>

Edit ==
  /\ future' = <<>>
  /\ past' \in {<<>>, Kept(<<present>> \o past)}

Undo ==
  /\ past # <<>>
  /\ present' = Head(past)
  /\ past' = Tail(past)
  /\ future' = <<present>> \o future

Redo ==
  /\ future # <<>>
  /\ present' = Head(future)
  /\ past' = Kept(<<present>> \o past)
  /\ future' = Tail(future)

Next == Edit \/ Undo \/ Redo

Spec == Init /\ [][Next]_logVars
=============================================================================
