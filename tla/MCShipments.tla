----------------------------- MODULE MCShipments -----------------------------
\* Two shipments, two updates at a time, three in all, and the statuses they
\* set, while two customers ask for a shipment.
EXTENDS ShipmentQuery, TLC

CONSTANTS c1, c2, q1, q2, pending, moving, delivered, absent

Calls == {c1, c2}
Queries == {q1, q2}
Orders == {1, 2}
Statuses == {pending, moving, delivered}

CallSymmetry == Permutations(Calls) \cup Permutations(Queries)
=============================================================================
