------------------------------ MODULE Shipments ------------------------------
(***************************************************************************)
(* ShipmentsService of tracking-service over tracking_db: shipments are    *)
(* created by the order.created consumer, and status updates of several    *)
(* callers run as READ COMMITTED transactions that write the shipment, its *)
(* timeline and the outbox.                                                *)
(*                                                                         *)
(* What a transaction inserts is its own until it commits.  The row it     *)
(* updates is locked until then; what it read before is not.               *)
(***************************************************************************)
EXTENDS Integers, FiniteSets

CONSTANTS
  Call,             \* places for concurrent runs of updateShipmentStatus
  Order,
  Status,           \* of shipmentStatusSchema
  Pending,          \* ShipmentStatus.Pending
  Absent,           \* no row
  MaxCalls,         \* bound on the calls of updateShipmentStatus
  MaxFaults         \* bound on transactions that fail

ASSUME ShipmentAssumption ==
  /\ IsFiniteSet(Call)
  /\ Order # {}
  /\ Pending \in Status
  /\ Absent \notin Status
  /\ MaxCalls \in Nat /\ MaxFaults \in Nat

VARIABLES
  shipment,         \* [Order -> status of the committed row, or Absent]
  events,           \* committed tracking_events
  outbox,           \* committed outbox rows
  processed,        \* orders whose order.created has its processed_messages row
  step,             \* of each call: "idle", "found", "updated", "enqueued", "owes"
  order, wanted,    \* the call's input
  current,          \* the status its findById returned
  row,              \* the outbox row it inserted
  clock,            \* createdAt of the last outbox row inserted
  calls, faults

inputs == <<order, wanted, current>>
vars   == <<shipment, events, outbox, processed, step, inputs, row, clock,
            calls, faults>>

Event == [order : Order, status : Status, change : Nat]
Row == [order : Order, previous : Status, current : Status, createdAt : Nat]
NoRow == [createdAt |-> 0]

TypeOK ==
  /\ shipment \in [Order -> Status \cup {Absent}]
  /\ events \subseteq Event
  /\ outbox \subseteq Row
  /\ processed \subseteq Order
  /\ step \in [Call -> {"idle", "found", "updated", "enqueued", "owes"}]
  /\ order \in [Call -> Order]
  /\ wanted \in [Call -> Status]
  /\ current \in [Call -> Status]
  /\ row \in [Call -> Row \cup {NoRow}]
  /\ clock \in 0 .. MaxCalls
  /\ calls \in 0 .. MaxCalls
  /\ faults \in 0 .. MaxFaults

-----------------------------------------------------------------------------
RowsOf(o) == {x \in outbox : x.order = o}

\* Slip: the update runs outside the transaction and keeps no lock.
NeverLocked(o) == FALSE

\* A transaction has updated the shipment of o and not ended.
Locked(o) ==
  \E c \in Call : step[c] \in {"updated", "enqueued"} /\ order[c] = o

SomeOrder == CHOOSE o \in Order : TRUE

\* The call returns or throws.
Return(c) ==
  /\ step' = [step EXCEPT ![c] = "idle"]
  /\ order' = [order EXCEPT ![c] = SomeOrder]
  /\ wanted' = [wanted EXCEPT ![c] = Pending]
  /\ current' = [current EXCEPT ![c] = Pending]
  /\ row' = [row EXCEPT ![c] = NoRow]

Fault ==
  /\ faults < MaxFaults
  /\ faults' = faults + 1

-----------------------------------------------------------------------------
\* The row and its first event.
CreateShipment(o) ==
  /\ shipment' = [shipment EXCEPT ![o] = Pending]
  /\ events' = events \cup {[order |-> o, status |-> Pending, change |-> 0]}

\* createPendingShipment within the transaction of markProcessed.  The index
\* entry of the event, taken first, runs the transactions of one order one
\* after the other, and no other code writes the rows they touch.
CreatePendingShipment(o) ==
  /\ o \notin processed
  /\ processed' = processed \cup {o}
  /\ IF shipment[o] = Absent THEN CreateShipment(o)
                             ELSE UNCHANGED <<shipment, events>>
  /\ UNCHANGED <<outbox, step, inputs, row, clock, calls, faults>>

-----------------------------------------------------------------------------
(***************************************************************************)
(* updateShipmentStatus.                                                   *)
(***************************************************************************)

\* Slip: the check for a missing shipment is dropped.
FindUnchecked(c, o, s) ==
  /\ step[c] = "idle"
  /\ calls < MaxCalls
  /\ calls' = calls + 1
  /\ shipment[o] # s
  /\ step' = [step EXCEPT ![c] = "found"]
  /\ order' = [order EXCEPT ![c] = o]
  /\ wanted' = [wanted EXCEPT ![c] = s]
  /\ current' = [current EXCEPT ![c] = shipment[o]]
  /\ UNCHANGED <<shipment, events, outbox, processed, row, clock, faults>>

\* findById.  A call for a missing shipment throws, and one for the status the
\* shipment has returns: neither changes anything.
Find(c, o, s) ==
  /\ step[c] = "idle"
  /\ calls < MaxCalls
  /\ calls' = calls + 1
  /\ shipment[o] \notin {Absent, s}
  /\ step' = [step EXCEPT ![c] = "found"]
  /\ order' = [order EXCEPT ![c] = o]
  /\ wanted' = [wanted EXCEPT ![c] = s]
  /\ current' = [current EXCEPT ![c] = shipment[o]]
  /\ UNCHANGED <<shipment, events, outbox, processed, row, clock, faults>>

\* Slip: updateStatus uses the client outside the transaction.
UpdateAtOnce(c) ==
  /\ step[c] = "found"
  /\ ~Locked(order[c])
  /\ shipment' = [shipment EXCEPT ![order[c]] = wanted[c]]
  /\ step' = [step EXCEPT ![c] = "updated"]
  /\ UNCHANGED <<events, outbox, processed, inputs, row, clock, calls, faults>>

\* updateStatus waits for the row.
UpdateStatus(c) ==
  /\ step[c] = "found"
  /\ ~Locked(order[c])
  /\ step' = [step EXCEPT ![c] = "updated"]
  /\ UNCHANGED <<shipment, events, outbox, processed, inputs, row, clock,
                 calls, faults>>

\* The tracking event and the outbox row are inserted.
Enqueue(c) ==
  /\ step[c] = "updated"
  /\ clock' = clock + 1
  /\ row' = [row EXCEPT ![c] =
               [order |-> order[c], previous |-> current[c],
                current |-> wanted[c], createdAt |-> clock + 1]]
  /\ step' = [step EXCEPT ![c] = "enqueued"]
  /\ UNCHANGED <<shipment, events, outbox, processed, inputs, calls, faults>>

Committed(c) ==
  /\ shipment' = [shipment EXCEPT ![order[c]] = wanted[c]]
  /\ events' = events \cup
       {[order |-> order[c], status |-> wanted[c], change |-> row[c].createdAt]}
  /\ outbox' = outbox \cup {row[c]}

Commit(c) ==
  /\ step[c] = "enqueued"
  /\ Committed(c)
  /\ step' = [step EXCEPT ![c] = "owes"]
  /\ UNCHANGED <<processed, inputs, row, clock, calls, faults>>

\* outboxRelay.wake(), and the return.
Wake(c) ==
  /\ step[c] = "owes"
  /\ Return(c)
  /\ UNCHANGED <<shipment, events, outbox, processed, clock, calls, faults>>

\* The transaction is rolled back, or its commit takes effect and the answer
\* is lost: the call throws, and no wake() follows.
Throws(c) ==
  /\ step[c] \in {"found", "updated", "enqueued"}
  /\ Fault
  /\ \/ UNCHANGED <<shipment, events, outbox>>
     \/ step[c] = "enqueued" /\ Committed(c)
  /\ Return(c)
  /\ UNCHANGED <<processed, clock, calls>>

-----------------------------------------------------------------------------
Init ==
  /\ shipment = [o \in Order |-> Absent]
  /\ events = {} /\ outbox = {} /\ processed = {}
  /\ step = [c \in Call |-> "idle"]
  /\ order = [c \in Call |-> SomeOrder]
  /\ wanted = [c \in Call |-> Pending]
  /\ current = [c \in Call |-> Pending]
  /\ row = [c \in Call |-> NoRow]
  /\ clock = 0 /\ calls = 0 /\ faults = 0

Next ==
  \/ \E o \in Order : CreatePendingShipment(o)
  \/ \E c \in Call :
       \/ UpdateStatus(c) \/ Enqueue(c) \/ Commit(c) \/ Wake(c) \/ Throws(c)
       \/ \E o \in Order, s \in Status : Find(c, o, s)

Spec == Init /\ [][Next]_vars

-----------------------------------------------------------------------------
(***************************************************************************)
(* Properties.                                                             *)
(***************************************************************************)

\* Who replays the announcements of a shipment in the order the relay
\* publishes them, createdAt, arrives at the status the shipment has, though
\* calls for it overlap and fail half-way (the row lock of updateStatus, held
\* while the outbox row is inserted).
LastAnnouncedIsStatus ==
  \A o \in Order :
    IF RowsOf(o) = {}
      THEN shipment[o] \in {Absent, Pending}
      ELSE \E x \in RowsOf(o) :
             /\ shipment[o] = x.current
             /\ \A y \in RowsOf(o) : y.createdAt <= x.createdAt

\* The changes of a shipment that are announced make a story: what one calls the
\* previous status was announced by an older one, though it is the status its
\* call read before it had the lock, and calls that overlap may both start
\* from it (payload.previousStatus).
PreviousWasAnnounced ==
  \A x \in outbox :
    \/ x.previous = Pending
    \/ \E y \in RowsOf(x.order) :
         y.createdAt < x.createdAt /\ y.current = x.previous

\* A row of a shipment becomes visible to the relay only after every row of
\* that shipment which is older by createdAt: the relay never publishes a
\* change and meets an earlier one afterwards.
VisibleInOrder ==
  [][\A o \in Order : \A x \in RowsOf(o)' \ RowsOf(o) : \A y \in RowsOf(o) :
       y.createdAt < x.createdAt]_vars
=============================================================================
