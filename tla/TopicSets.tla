----------------------------- MODULE TopicSets -----------------------------
(***************************************************************************)
(* Sets of entries <<topic, id, context>>: the subscriptions of connected  *)
(* clients (id a pipe) and the sessions of absent ones (id a session id).  *)
(* At most one entry has a given topic and id.                             *)
(***************************************************************************)
EXTENDS Integers, Sequences

Has(set, f, id) == \E x \in set : x[1] = f /\ x[2] = id

CtxtAt(set, f, id, none) ==
  IF Has(set, f, id) THEN (CHOOSE x \in set : x[1] = f /\ x[2] = id)[3] ELSE none

Without(set, f, id) == {x \in set : x[1] # f \/ x[2] # id}

\* An entry that exists keeps its context.
With(set, f, id, c) == IF Has(set, f, id) THEN set ELSE set \cup {<<f, id, c>>}
=============================================================================
