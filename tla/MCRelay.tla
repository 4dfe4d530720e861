-------------------------------- MODULE MCRelay --------------------------------
(* The relay over the dialect's own tables, and every document of WireAuthor. *)
EXTENDS Relay

Author == INSTANCE WireAuthor

UnionOf(owner) == {u \in DOMAIN Tags : owner \in CasesOf(u)}

Plainly(owner) ==
  IF owner \in Kinds THEN <<"NodeKind">>
  ELSE IF UnionOf(owner) = {"Binding"} THEN <<"slot", "Untyped">>
  ELSE IF UnionOf(owner) # {} THEN <<CHOOSE u \in UnionOf(owner) : TRUE>>
  ELSE <<owner>>

TypeOf(owner) == (IF owner \in DOMAIN ComputeTypes THEN <<"compute">> ELSE <<>>) \o Plainly(owner)

Document(type, means) == [type |-> type, means |-> means]

MCDocuments ==
  {Document(TypeOf(v.r), v) : v \in Author!Authored(control_placeholder)} \cup
  UNION {{Document(<<"slot", slot>>, v) : v \in Author!Valued(slot, placeholder(slot))} : slot \in Slots}

MCJunk == {Null, Bool(TRUE), Half, Str("junk"), List(<<>>), Object([junk |-> Num(7)])}
=============================================================================
