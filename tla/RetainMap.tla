------------------------------ MODULE RetainMap ------------------------------
(***************************************************************************)
(* What the tree of retained messages promises: at most one message for a  *)
(* topic, the last one stored and not cleared since; storing or clearing   *)
(* one topic leaves the others alone.                                      *)
(***************************************************************************)
EXTENDS Functions

CONSTANTS RetainTopics, Values

VARIABLES map,   \* topic -> message
          done   \* the topic stored or cleared and the message, while it is handled

vars == <<map, done>>

Init == map = << >> /\ done = << >>

Store(t, v) == /\ map' = [x \in DOMAIN map \cup {t} |-> IF x = t THEN v ELSE map[x]]
               /\ done' = <<t, v>>

Clear(t) == map' = Restrict(map, DOMAIN map \ {t}) /\ done' = <<t>>

Finish == done' = << >> /\ UNCHANGED map

Next == Finish \/ \E t \in RetainTopics : Clear(t) \/ \E v \in Values : Store(t, v)

Spec == Init /\ [][Next]_vars
=============================================================================
