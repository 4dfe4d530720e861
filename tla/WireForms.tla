------------------------------- MODULE WireForms -------------------------------
(*
  The words the wire tables are written in: JSON as the codec sees it, the values it decodes to,
  how a member is read and when a member is written.

  An object is a function from its keys, so the order of its keys and a key written twice are
  left out: the canonical writer sorts the keys and the reader takes the first of two. A number
  is a whole number of the 32-bit slot, a fraction or one no slot holds. A text is a name.
*)
EXTENDS Integers, Sequences, TLC

Str(s) == [j |-> "str", s |-> s]
Num(n) == [j |-> "num", n |-> n]
Half == [j |-> "half"]
Huge == [j |-> "huge"]
Bool(b) == [j |-> "bool", b |-> b]
Null == [j |-> "null"]
List(items) == [j |-> "arr", a |-> items]
Object(members) == [j |-> "obj", f |-> members]

\* A text that is not JSON at all: what an encoder leaves when it writes a key and no value.
Nothing == [j |-> "nothing"]

OPAQUE == Str("<opaque>")
CLOSURE == Str("<closure>")

\* A decoded record or union case: who it is and its members. An absent option is one of them.
Record(owner, members) == [r |-> owner, m |-> members]
NoMembers == <<>>
None == Record("None", NoMembers)
Holding(owner, value) == Record(owner, [m0 |-> value])

-----------------------------------------------------------------------------
(* How a member is read. *)

\* A key, the member it lands in, its other spellings, its type, and what its absence means.
Req(key, type) ==
  [key |-> key, member |-> key, also |-> <<>>, sole |-> FALSE, type |-> type, need |-> TRUE, or |-> None,
   instead |-> <<>>]

Or(key, type, default) == [Req(key, type) EXCEPT !.need = FALSE, !.or = default]

Opt(key, type) == Or(key, type, None)

Also(entry, aliases) == [entry EXCEPT !.also = aliases]

\* Two of its names at once are refused.
Sole(entry) == [entry EXCEPT !.sole = TRUE]

Into(entry, member) == [entry EXCEPT !.member = member]

\* Where no name of the first is there the second entry is read in its place.
Otherwise(entry, second) == [entry EXCEPT !.instead = <<second>>]

-----------------------------------------------------------------------------
(* When a key is written, and what under it. *)

Rule(when, key, member, default) == key :> [when |-> when, of |-> member, eq |-> default]

Rules(when, keys) == [k \in keys |-> [when |-> when, of |-> k, eq |-> None]]

Tag(tag) == Rule("tag", "$type", tag, None)
Put(keys) == Rules("always", keys)
PutAs(key, member) == Rule("always", key, member, None)
Given(keys) == Rules("given", keys)
NonEmpty(keys) == Rules("filled", keys)
Mark(keys) == Rules("mark", keys)
UnlessAs(key, member, default) == Rule("unless", key, member, default)
Unless(key, default) == UnlessAs(key, key, default)
=============================================================================
