------------------------- MODULE IdempotentConsumer -------------------------
(***************************************************************************)
(* IdempotentConsumer and RabbitMQClient.consume (libs/messaging) on one   *)
(* queue, over the processed_messages table of one service.                *)
(*                                                                         *)
(* A Run is one invocation of handleMessage in a worker process; up to     *)
(* Prefetch of them are open at the broker at a time, and those of a lost  *)
(* connection go on in the process without it.                             *)
(***************************************************************************)
EXTENDS Integers, FiniteSets

CONSTANTS
  Worker,           \* processes of the service that consume the queue
  Slot,             \* places for the runs of one worker
  Prefetch,         \* unacknowledged deliveries allowed per worker
  Copy,             \* message copies, numbered in queue order
  Event,
  EventOf,          \* [Copy -> Event]: several copies may carry one event
  Invalid,          \* events the envelope or typed schema refuses
  Poison,           \* events whose transaction fails every time
  RetryOnError,     \* the consumer's retryOnError option
  MaxFaults         \* bound on crashes, lost connections, failed queries

Run == Worker \X Slot

ASSUME ConsumerAssumption ==
  /\ IsFiniteSet(Worker) /\ IsFiniteSet(Slot)
  /\ Copy \subseteq Nat /\ Copy # {}
  /\ EventOf \in [Copy -> Event]
  /\ Invalid \subseteq Event /\ Poison \subseteq Event
  /\ RetryOnError \in BOOLEAN
  /\ Prefetch \in Nat \ {0}
  /\ MaxFaults \in Nat

\* The model has a place for every run a worker can have at once.
ASSUME SlotAssumption == Cardinality(Slot) >= Prefetch * (MaxFaults + 1)

VARIABLES
  where,            \* of each copy: "unsent", "ready", "unacked", "gone", "dlq"
  up, linked,       \* of each worker: it runs; its channel is open
  stage,            \* of each run: how far handleMessage is; "free" if none
  copy,             \* the copy a run handles
  live,             \* the channel the copy came on is still open
  processed,        \* events with a row in processed_messages
  applied,          \* how often the handler's transaction took effect
  faults

worker   == <<up, linked>>
run      == <<stage, copy, live>>
database == <<processed, applied>>
vars     == <<where, worker, run, database, faults>>

Stages == {"free", "received", "inserted", "processed", "duplicate", "failed"}

TypeOK ==
  /\ where \in [Copy -> {"unsent", "ready", "unacked", "gone", "dlq"}]
  /\ up \in [Worker -> BOOLEAN]
  /\ linked \in [Worker -> BOOLEAN]
  /\ stage \in [Run -> Stages]
  /\ copy \in [Run -> Copy]
  /\ live \in [Run -> BOOLEAN]
  /\ processed \subseteq Event
  /\ applied \in [Event -> Nat]
  /\ faults \in Nat

-----------------------------------------------------------------------------
RunsOf(w) == {w} \X Slot

Carries(q) == EventOf[copy[q]]

Unacked(w) == {q \in RunsOf(w) : live[q]}

\* Slip: the lookup of the row is not protected by the unique index.
NeverLocked(e) == FALSE

\* A transaction holds the unique index entry of its event until it ends.
Locked(e) == \E q \in Run : stage[q] = "inserted" /\ Carries(q) = e

NoCopy == CHOOSE c \in Copy : TRUE

Fault ==
  /\ faults < MaxFaults
  /\ faults' = faults + 1

At(q, s) == stage' = [stage EXCEPT ![q] = s]

\* Slip: the queue is consumed with noAck, so nothing comes back.
RequeueNothing(W) == where' = where

\* The broker takes back what the workers in W had not acknowledged.
Requeue(W) ==
  where' = [c \in Copy |->
              IF \E q \in Run : q[1] \in W /\ live[q] /\ copy[q] = c
                THEN "ready" ELSE where[c]]

\* The process ends, and with it its runs and their open transactions.
GoDown(w) ==
  /\ up' = [up EXCEPT ![w] = FALSE]
  /\ linked' = [linked EXCEPT ![w] = TRUE]
  /\ Requeue({w})
  /\ stage' = [q \in Run |-> IF q[1] = w THEN "free" ELSE stage[q]]
  /\ copy' = [q \in Run |-> IF q[1] = w THEN NoCopy ELSE copy[q]]
  /\ live' = [q \in Run |-> IF q[1] = w THEN FALSE ELSE live[q]]

\* channel.ack or channel.nack, and the end of the run.  On a channel that is
\* gone both throw, the nack in RabbitMQClient.consume's catch throws again,
\* and the unhandled rejection ends the process.
Settle(q, verdict) ==
  IF live[q]
    THEN /\ where' = [where EXCEPT ![copy[q]] = verdict]
         /\ At(q, "free")
         /\ copy' = [copy EXCEPT ![q] = NoCopy]
         /\ live' = [live EXCEPT ![q] = FALSE]
         /\ UNCHANGED worker
    ELSE GoDown(q[1])

-----------------------------------------------------------------------------
(***************************************************************************)
(* The broker.                                                             *)
(***************************************************************************)

Publish(c) ==
  /\ where[c] = "unsent"
  /\ \A d \in Copy : d < c => where[d] # "unsent"
  /\ where' = [where EXCEPT ![c] = "ready"]
  /\ UNCHANGED <<worker, run, database, faults>>

\* The queue hands out its first ready message; a requeued one is back at the
\* place it had.
Deliver(c) ==
  /\ where[c] = "ready"
  /\ \A d \in Copy : where[d] = "ready" => c <= d
  /\ \E q \in Run :
       /\ up[q[1]] /\ linked[q[1]]
       /\ Cardinality(Unacked(q[1])) < Prefetch
       /\ stage[q] = "free"
       /\ At(q, "received")
       /\ copy' = [copy EXCEPT ![q] = c]
       /\ live' = [live EXCEPT ![q] = TRUE]
  /\ where' = [where EXCEPT ![c] = "unacked"]
  /\ UNCHANGED <<worker, database, faults>>

Disconnect(w) ==
  /\ up[w] /\ linked[w]
  /\ Fault
  /\ linked' = [linked EXCEPT ![w] = FALSE]
  /\ Requeue({w})
  /\ live' = [q \in Run |-> IF q[1] = w THEN FALSE ELSE live[q]]
  /\ UNCHANGED <<up, stage, copy, database>>

Reconnect(w) ==
  /\ ~linked[w]
  /\ linked' = [linked EXCEPT ![w] = TRUE]
  /\ UNCHANGED <<where, up, run, database, faults>>

-----------------------------------------------------------------------------
(***************************************************************************)
(* handleMessage.                                                          *)
(***************************************************************************)

\* The envelope does not parse, or the event schema refuses it.
RejectInvalid(q) ==
  /\ stage[q] = "received"
  /\ Carries(q) \in Invalid
  /\ Settle(q, "dlq")
  /\ UNCHANGED <<database, faults>>

\* markProcessed opens its transaction and inserts the row.  The insert waits
\* for another transaction that holds the key, and finds a committed row.
Insert(q) ==
  /\ stage[q] = "received"
  /\ Carries(q) \notin Invalid
  /\ ~Locked(Carries(q))
  /\ At(q, IF Carries(q) \in processed THEN "duplicate" ELSE "inserted")
  /\ UNCHANGED <<where, worker, copy, live, database, faults>>

\* The insert is refused.  So is every one of notification-service, whose raw
\* SQL names columns its schema does not make: all its events are Poison.
InsertFails(q) ==
  /\ stage[q] = "received"
  /\ Carries(q) \notin Invalid
  /\ IF Carries(q) \in Poison THEN UNCHANGED faults ELSE Fault
  /\ At(q, "failed")
  /\ UNCHANGED <<where, worker, copy, live, database>>

\* Slip: the row is keyed by the delivery instead of the event.
CommittedByCopy(q) ==
  /\ processed' = processed \cup {copy[q]}
  /\ applied' = [applied EXCEPT ![Carries(q)] = @ + 1]

\* The transaction of q takes effect.
Committed(q) ==
  /\ processed' = processed \cup {Carries(q)}
  /\ applied' = [applied EXCEPT ![Carries(q)] = @ + 1]

\* The handler returns and the transaction commits.
Commit(q) ==
  /\ stage[q] = "inserted"
  /\ Carries(q) \notin Poison
  /\ Committed(q)
  /\ At(q, "processed")
  /\ UNCHANGED <<where, worker, copy, live, faults>>

\* The commit takes effect, but its answer is lost: the call rejects.
CommitUnanswered(q) ==
  /\ stage[q] = "inserted"
  /\ Carries(q) \notin Poison
  /\ Fault
  /\ Committed(q)
  /\ At(q, "failed")
  /\ UNCHANGED <<where, worker, copy, live>>

\* The handler throws, or the transaction times out: it is rolled back.  A
\* unique violation of the handler would be called a duplicate and acknowledged;
\* createPendingShipment looks for the shipment first, and would meet one only
\* with two events for one order, which order-service does not make.
HandlerThrows(q) ==
  /\ stage[q] = "inserted"
  /\ IF Carries(q) \in Poison THEN UNCHANGED faults ELSE Fault
  /\ At(q, "failed")
  /\ UNCHANGED <<where, worker, copy, live, database>>

\* Slip: the ack does not wait for the transaction.
AckEarly(q) ==
  /\ stage[q] \in {"inserted", "processed", "duplicate"}
  /\ Settle(q, "gone")
  /\ UNCHANGED <<database, faults>>

\* Slip: the duplicate case returns without an ack.
AckOnlyFirst(q) ==
  /\ stage[q] = "processed"
  /\ Settle(q, "gone")
  /\ UNCHANGED <<database, faults>>

Ack(q) ==
  /\ stage[q] \in {"processed", "duplicate"}
  /\ Settle(q, "gone")
  /\ UNCHANGED <<database, faults>>

Nack(q) ==
  /\ stage[q] = "failed"
  /\ Settle(q, IF RetryOnError THEN "ready" ELSE "dlq")
  /\ UNCHANGED <<database, faults>>

-----------------------------------------------------------------------------
Crash(w) ==
  /\ up[w]
  /\ Fault
  /\ GoDown(w)
  /\ UNCHANGED database

\* The service starts again, and start() consumes the queue.
Start(w) ==
  /\ ~up[w]
  /\ up' = [up EXCEPT ![w] = TRUE]
  /\ UNCHANGED <<where, linked, run, database, faults>>

Init ==
  /\ where = [c \in Copy |-> "unsent"]
  /\ up = [w \in Worker |-> TRUE]
  /\ linked = [w \in Worker |-> TRUE]
  /\ stage = [q \in Run |-> "free"]
  /\ copy = [q \in Run |-> NoCopy]
  /\ live = [q \in Run |-> FALSE]
  /\ processed = {}
  /\ applied = [e \in Event |-> 0]
  /\ faults = 0

Handle(q) ==
  \/ RejectInvalid(q) \/ Insert(q) \/ Commit(q) \/ HandlerThrows(q)
  \/ Ack(q) \/ Nack(q)

Next ==
  \/ \E c \in Copy : Publish(c) \/ Deliver(c)
  \/ \E q \in Run : Handle(q) \/ InsertFails(q) \/ CommitUnanswered(q)
  \/ \E w \in Worker : Disconnect(w) \/ Reconnect(w) \/ Crash(w) \/ Start(w)

Spec == Init /\ [][Next]_vars

\* The broker hands a message out as soon as it is first in the queue and a
\* consumer has room; the event loop and the database finish what they begin;
\* the client reconnects, and the container runtime restarts.
Fairness ==
  /\ \A c \in Copy : SF_vars(Deliver(c))
  /\ \A q \in Run : WF_vars(Handle(q))
  /\ \A w \in Worker : WF_vars(Reconnect(w)) /\ WF_vars(Start(w))

FairSpec == Spec /\ Fairness

-----------------------------------------------------------------------------
(***************************************************************************)
(* Properties.                                                             *)
(***************************************************************************)

\* A copy the broker counts as unacknowledged has exactly one run that can
\* still settle it, and a run that can settle a copy has one that is
\* unacknowledged: no message is stranded and none is settled twice, whatever
\* became of the connection it came on.
OneSettler ==
  \A c \in Copy :
    Cardinality({q \in Run : live[q] /\ copy[q] = c})
      = IF where[c] = "unacked" THEN 1 ELSE 0

\* An event that took effect once is not in the hands of a transaction that
\* could make it take effect again (the unique constraint on consumer and
\* event, together with the transaction around the handler).
NoSecondEffect ==
  \A q \in Run : stage[q] = "inserted" => applied[Carries(q)] = 0

Promise ==
  INSTANCE Inbox WITH
    place <- [c \in Copy |->
                IF where[c] \in {"ready", "unacked"} THEN "pending" ELSE where[c]],
    Buriable <- IF RetryOnError THEN Invalid ELSE Event

\* The consumer implements Inbox: effects are exactly-once, nothing is
\* acknowledged before its effect is durable, nothing readable is buried.
ImplementsInbox == Promise!Spec

\* Every message whose handler can succeed leaves the queue, though copies,
\* crashes, lost connections and a message that fails for ever are about.
GoodSettle ==
  \A c \in Copy :
    EventOf[c] \notin Poison /\ where[c] = "ready" ~> where[c] \in {"gone", "dlq"}

\* A message whose handler keeps failing is routed to the DLQ in the end
\* (ARCHITECTURE.md, "retries > N": "Route to DLQ").
PoisonReachesDlq ==
  \A c \in Copy :
    EventOf[c] \in Poison /\ where[c] = "ready" ~> where[c] = "dlq"
=============================================================================
