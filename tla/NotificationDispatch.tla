------------------------- MODULE NotificationDispatch -------------------------
(***************************************************************************)
(* The consumers of notification-service: markProcessed opens a            *)
(* transaction, NotificationDispatchService.dispatch runs in it, and the   *)
(* provider is called from there.  What the provider accepted stays        *)
(* accepted when the transaction does not commit.                          *)
(*                                                                         *)
(* The queue is reduced to what IdempotentConsumer shows of it: a message  *)
(* stays until a run acknowledges it, and any number of runs may hold it,  *)
(* as redelivery after a lost connection lets them.                        *)
(*                                                                         *)
(* The raw SQL of both repositories names columns in snake_case, and       *)
(* prisma db push makes them in camelCase from prisma/schema.prisma.  With *)
(* that database ColumnsMatch is FALSE: the first INSERT fails in every    *)
(* run, and none gets to what follows it.  TRUE is a database with the     *)
(* columns of the SQL.                                                     *)
(***************************************************************************)
EXTENDS Integers, FiniteSets

CONSTANTS
  Run,              \* places for concurrent runs of handleMessage
  Event,            \* events on the queue of one consumer
  Refused,          \* events whose notification the provider always refuses
  ColumnsMatch,     \* notification_db has the columns the raw SQL names
  MaxFaults         \* bound on crashes, failed or timed-out statements, refusals

ASSUME DispatchAssumption ==
  /\ IsFiniteSet(Run)
  /\ Event # {} /\ Refused \subseteq Event
  /\ ColumnsMatch \in BOOLEAN
  /\ MaxFaults \in Nat

VARIABLES
  queued,           \* events whose message is not acknowledged
  processed,        \* events with a committed processed_messages row
  deliveries,       \* committed notification_deliveries: [Event -> [Statuses -> Nat]]
  accepted,         \* how often the provider took the event's notification
  stage,            \* of each run: how far it is; "free" if none
  event,            \* the event it handles
  status,           \* the delivery row of its open transaction, or "none"
  faults

vars == <<queued, processed, deliveries, accepted, stage, event, status, faults>>

Statuses == {"PENDING", "SENT", "FAILED"}

Stages == {"free", "received", "inserted", "created", "sent", "refused",
           "done", "processed", "duplicate", "failed"}

TypeOK ==
  /\ queued \subseteq Event
  /\ processed \subseteq Event
  /\ deliveries \in [Event -> [Statuses -> Nat]]
  /\ accepted \in [Event -> Nat]
  /\ stage \in [Run -> Stages]
  /\ event \in [Run -> Event]
  /\ status \in [Run -> Statuses \cup {"none"}]
  /\ faults \in 0 .. MaxFaults

-----------------------------------------------------------------------------
SomeEvent == CHOOSE e \in Event : TRUE

InTransaction(q) == stage[q] \in {"inserted", "created", "sent", "refused", "done"}

\* Slip: the lookup of the row is not protected by the unique index.
NeverLocked(e) == FALSE

Locked(e) == \E q \in Run : InTransaction(q) /\ event[q] = e

At(q, s) == stage' = [stage EXCEPT ![q] = s]

Draft(q, s) == status' = [status EXCEPT ![q] = s]

Fault ==
  /\ faults < MaxFaults
  /\ faults' = faults + 1

Finish(q) ==
  /\ At(q, "free")
  /\ event' = [event EXCEPT ![q] = SomeEvent]
  /\ Draft(q, "none")

-----------------------------------------------------------------------------
Deliver(q, e) ==
  /\ stage[q] = "free"
  /\ e \in queued
  /\ At(q, "received")
  /\ event' = [event EXCEPT ![q] = e]
  /\ UNCHANGED <<queued, processed, deliveries, accepted, status, faults>>

\* The statement names columns the table may not have.
InsertOutcome(e) ==
  CASE ~ColumnsMatch                      -> "failed"
    [] ColumnsMatch /\ e \in processed    -> "duplicate"
    [] ColumnsMatch /\ e \notin processed -> "inserted"

\* INSERT ... ON CONFLICT DO NOTHING waits for a transaction that holds the
\* key.  No run holds one when every INSERT fails.
Insert(q) ==
  /\ stage[q] = "received"
  /\ ~Locked(event[q])
  /\ At(q, InsertOutcome(event[q]))
  /\ UNCHANGED <<queued, processed, deliveries, accepted, event, status, faults>>

\* dispatch: deliveryRepository.create.
Create(q) ==
  /\ stage[q] = "inserted"
  /\ At(q, "created")
  /\ Draft(q, "PENDING")
  /\ UNCHANGED <<queued, processed, deliveries, accepted, event, faults>>

\* provider.send resolves.
Send(q) ==
  /\ stage[q] = "created"
  /\ event[q] \notin Refused
  /\ accepted' = [accepted EXCEPT ![event[q]] = @ + 1]
  /\ At(q, "sent")
  /\ UNCHANGED <<queued, processed, deliveries, event, status, faults>>

\* provider.send throws, before or after the provider took the notification.
SendThrows(q) ==
  /\ stage[q] = "created"
  /\ \/ event[q] \in Refused /\ UNCHANGED <<accepted, faults>>
     \/ /\ event[q] \notin Refused
        /\ Fault
        /\ \/ UNCHANGED accepted
           \/ accepted' = [accepted EXCEPT ![event[q]] = @ + 1]
  /\ At(q, "refused")
  /\ UNCHANGED <<queued, processed, deliveries, event, status>>

\* Slip: a status of shipments is written; the column is a plain string.
MarkDelivered(q) ==
  /\ stage[q] = "sent"
  /\ At(q, "done")
  /\ Draft(q, "DELIVERED")
  /\ UNCHANGED <<queued, processed, deliveries, accepted, event, faults>>

MarkSent(q) ==
  /\ stage[q] = "sent"
  /\ At(q, "done")
  /\ Draft(q, "SENT")
  /\ UNCHANGED <<queued, processed, deliveries, accepted, event, faults>>

\* Slip: the error is swallowed once the row is marked.
MarkFailedOnly(q) ==
  /\ stage[q] = "refused"
  /\ At(q, "done")
  /\ Draft(q, "FAILED")
  /\ UNCHANGED <<queued, processed, deliveries, accepted, event, faults>>

\* The catch block marks the row and throws: the transaction, and the mark
\* with it, is rolled back.
MarkFailed(q) ==
  /\ stage[q] = "refused"
  /\ At(q, "failed")
  /\ Draft(q, "none")
  /\ UNCHANGED <<queued, processed, deliveries, accepted, event, faults>>

Committed(q) ==
  /\ processed' = processed \cup {event[q]}
  /\ deliveries' = [deliveries EXCEPT ![event[q]][status[q]] = @ + 1]

\* The transaction ends unanswered: it is rolled back, or was committed.
Severed(q) ==
  \/ UNCHANGED <<processed, deliveries>>
  \/ stage[q] = "done" /\ Committed(q)

\* A statement of the transaction fails, or finds it timed out.  The catch
\* block of dispatch does not see a failing update to SENT, whose promise it
\* returns without awaiting it.
Rollback(q) ==
  /\ InTransaction(q)
  /\ Fault
  /\ Severed(q)
  /\ At(q, "failed")
  /\ Draft(q, "none")
  /\ UNCHANGED <<queued, accepted, event>>

Commit(q) ==
  /\ stage[q] = "done"
  /\ Committed(q)
  /\ At(q, "processed")
  /\ Draft(q, "none")
  /\ UNCHANGED <<queued, accepted, event, faults>>

\* Slip: ack when the handler failed, too.
AckAlways(q) ==
  /\ stage[q] \in {"processed", "duplicate", "failed"}
  /\ queued' = queued \ {event[q]}
  /\ Finish(q)
  /\ UNCHANGED <<processed, deliveries, accepted, faults>>

Ack(q) ==
  /\ stage[q] \in {"processed", "duplicate"}
  /\ queued' = queued \ {event[q]}
  /\ Finish(q)
  /\ UNCHANGED <<processed, deliveries, accepted, faults>>

\* nack with requeue.
Nack(q) ==
  /\ stage[q] = "failed"
  /\ Finish(q)
  /\ UNCHANGED <<queued, processed, deliveries, accepted, faults>>

\* The process ends; runs that end with it do so in steps of their own.
Crash(q) ==
  /\ stage[q] # "free"
  /\ Fault
  /\ Severed(q)
  /\ Finish(q)
  /\ UNCHANGED <<queued, accepted>>

-----------------------------------------------------------------------------
Init ==
  /\ queued = Event
  /\ processed = {}
  /\ deliveries = [e \in Event |-> [s \in Statuses |-> 0]]
  /\ accepted = [e \in Event |-> 0]
  /\ stage = [q \in Run |-> "free"]
  /\ event = [q \in Run |-> SomeEvent]
  /\ status = [q \in Run |-> "none"]
  /\ faults = 0

Handle(q) ==
  \/ Insert(q) \/ Create(q) \/ Send(q) \/ SendThrows(q) \/ MarkSent(q)
  \/ MarkFailed(q) \/ Commit(q) \/ Ack(q) \/ Nack(q)

Next ==
  \E q \in Run :
    \/ Handle(q) \/ Rollback(q) \/ Crash(q)
    \/ \E e \in Event : Deliver(q, e)

Spec == Init /\ [][Next]_vars

-----------------------------------------------------------------------------
(***************************************************************************)
(* Properties.                                                             *)
(***************************************************************************)

\* The tables tell the truth: an event with its processed row has one
\* delivery row, SENT, and the provider did take the notification; without
\* that row it has none, and what a rolled-back run wrote of it is gone.
TablesAgree ==
  \A e \in Event :
    IF e \in processed
      THEN /\ deliveries[e] = [s \in Statuses |-> IF s = "SENT" THEN 1 ELSE 0]
           /\ accepted[e] > 0
      ELSE deliveries[e] = [s \in Statuses |-> 0]

\* A customer is notified again only where something failed after the provider
\* took the notification and before the transaction committed.
RepeatsNeedFaults ==
  \A e \in Event : accepted[e] <= 1 + faults

\* No notification is lost: a message leaves the queue only with the delivery
\* committed.
NoneLost == Event \ queued \subseteq processed

\* A delivery the provider refuses is marked FAILED (the test "marks a delivery
\* failed when provider throws").
RefusalIsRecorded ==
  \A q \in Run :
    stage[q] = "failed" /\ event[q] \in Refused => deliveries[event[q]]["FAILED"] > 0
=============================================================================
