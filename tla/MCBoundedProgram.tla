-------------------------- MODULE MCBoundedProgram --------------------------
(* A tree with every kind of leaf: a question behind a write, a question      *)
(* inside its continuation, commits of an admitted, a refused and a reserved  *)
(* slot, a continuation over the budget, and readers with and without a       *)
(* default of their own.                                                      *)
EXTENDS BoundedProgram

MCNodes == {"delete", "save", "tabs"}
MCQuestions == {"q", "inner"}
MCOwner == [q \in MCQuestions |-> "delete"]
MCKeys == {"msg", "name", "host"}
MCVals == {"v1", "v2"}
MCReserved == {"host"}

Msg(default) == [key |-> "msg", default |-> default]
Set(v) == [op |-> "set", key |-> "msg", value |-> v]
Ask(q) == [op |-> "ask", question |-> q, from |-> Msg(Absent)]
Commit(f) == [op |-> "commit", field |-> f]
Effect == [op |-> "emit"]

MCGesture == [n \in MCNodes |->
  CASE n = "delete" -> <<Set("v1"), Ask("q")>>
    [] n = "save"   -> <<Commit("secret"), [op |-> "go", from |-> Msg(Absent)]>>
    [] OTHER        -> NoAction]

MCBranch == [q \in MCQuestions |-> [c \in BOOLEAN |->
  CASE q = "q" /\ c     -> <<Commit("name"), Ask("inner")>>
    [] q = "q" /\ ~c    -> NoAction
    [] q = "inner" /\ c -> <<Effect, Effect, Effect>>
    [] OTHER            -> <<Set("v2")>>]]

MCReaders == <<Msg("v2"), Msg(Absent), [key |-> "name", default |-> "v1"]>>

MCFields == {"name", "secret"}
MCCommitTo == [f \in MCFields |-> IF f = "name" THEN "name" ELSE "host"]
MCReads == [f \in MCFields |-> [v \in MCVals |-> IF v = "v1" THEN "v2" ELSE "absent"]]
MCHostStore == [k \in MCKeys |-> Absent]
MCMayDispatch == {"delete", "save"}
MCMayContinue == MCQuestions \X BOOLEAN
MCMayWrite == {"msg", "host"}
=============================================================================
