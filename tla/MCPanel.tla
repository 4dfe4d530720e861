------------------------------ MODULE MCPanel -------------------------------
(* Small instances of Panel: a root costs more than a reading. *)
EXTENDS Panel, TLC

MCCost(op) == IF op = Root THEN 3 ELSE 2
=============================================================================
