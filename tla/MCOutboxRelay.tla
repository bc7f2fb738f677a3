--------------------------- MODULE MCOutboxRelay ---------------------------
(***************************************************************************)
(* Instances of OutboxRelay for TLC.                                       *)
(***************************************************************************)
EXTENDS OutboxRelay, TLC

CONSTANTS r1, r2

OneRelay == {r1}
TwoRelays == {r1, r2}
TwoRecords == 1..2

RelaySymmetry == Permutations(Relay)
=============================================================================
