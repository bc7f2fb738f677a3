------------------------ MODULE MCIdempotentConsumer ------------------------
(***************************************************************************)
(* Instances of IdempotentConsumer for TLC: an event that always fails at  *)
(* the head of the queue, one that arrives twice, and one no schema takes. *)
(***************************************************************************)
EXTENDS IdempotentConsumer

CONSTANTS w1, w2, good, bad, poison

Workers == {w1, w2}
TwoSlots == {1, 2}
Copies == 1..4
Events == {good, bad, poison}
Carried == <<poison, good, good, bad>>
InvalidEvents == {bad}
PoisonEvents == {poison}
=============================================================================
