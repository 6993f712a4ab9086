-------------------------- MODULE MCParticipantState --------------------------
(***************************************************************************)
(* A small instance of ParticipantState: the batch with which the game     *)
(* draws a connection number, and batches that get in its way.             *)
(***************************************************************************)
EXTENDS ParticipantState, TLC

Symmetry == Permutations(User) \cup Permutations(Writer)

Put(fields, mask, pre) == [op |-> "update", fields |-> fields, mask |-> mask, pre |-> pre]
Field(k, v)            == [Empty EXCEPT ![k] = v]
Transform(k, by, n)    == [op |-> "transform", path |-> <<k>>, by |-> by, n |-> n]
Inside(x, by, n)       == [op |-> "transform", path |-> <<"state", x>>, by |-> by, n |-> n]

Join  == Put(Field("upcsid", IntegerValue(0)), "*", "none")
Draw  == <<Transform("upcsid", "load", 0), Transform("upcsid", "maximum", 1),
           Transform("upcsid", "increment", 1), Transform("upcsid", "store", 0)>>
Reset == Transform("upcsid", "clear", 0)

MCRequest == {
  <<Join>> \o Draw,
  Draw,
  <<Put(Field("upcsid", IntegerValue(0)), "*", "missing")>>,
  <<Put(Field("state", Map([x |-> Time, y |-> None])), <<<<"state", "x">>>>, "exists"),
    Inside("x", "increment", 1)>>,
  <<Inside("y", "increment", 2), Inside("y", "minimum", 2)>>,
  <<[op |-> "merge", fields |-> Field("state", Map([x |-> None, y |-> Time]))]>>,
  <<Transform("state", "time", 0)>>,
  <<Reset, [op |-> "delete", pre |-> "missing"]>>,
  <<[op |-> "delete", pre |-> "none"], Join, Reset>>,
  <<[op |-> "delete", pre |-> "exists"]>> }

MCMask == {<<<<"upcsid">>>>, <<<<"state", "x">>, <<"upcsid">>>>,
           <<<<"state", "y">>, <<"state", "x">>>>, <<<<"state">>, <<"state", "x">>>>}
=============================================================================
