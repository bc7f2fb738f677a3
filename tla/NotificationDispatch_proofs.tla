--------------------- MODULE NotificationDispatch_proofs ---------------------
(***************************************************************************)
(* Theorems about NotificationDispatch: for any runs, events and faults,   *)
(* what the tables say, how often a customer can be told, and that no      *)
(* message is lost.                                                        *)
(***************************************************************************)
EXTENDS NotificationDispatch, TLAPS

-----------------------------------------------------------------------------
(***************************************************************************)
(* The invariant.                                                          *)
(***************************************************************************)

\* The events of the open transactions are new, and all different.
TransactionIsNew ==
  \A q \in Run : InTransaction(q) => event[q] \notin processed

OneTransaction ==
  \A q \in Run, p \in Run :
    InTransaction(q) /\ InTransaction(p) /\ event[q] = event[p] => q = p

\* What a run has done so far is in its draft and at the provider.
DraftFollows == \A q \in Run : stage[q] = "done" => status[q] = "SENT"

SentIsAccepted ==
  \A q \in Run : stage[q] \in {"sent", "done"} => accepted[event[q]] > 0

EndedIsProcessed ==
  \A q \in Run : stage[q] \in {"processed", "duplicate"} => event[q] \in processed

Progress ==
  /\ TransactionIsNew /\ OneTransaction
  /\ DraftFollows /\ SentIsAccepted /\ EndedIsProcessed

\* The provider took the notification of e, and no fault came after.
Told(e) ==
  \/ e \in processed
  \/ \E q \in Run : stage[q] \in {"sent", "done"} /\ event[q] = e

\* Every acceptance but the one of the run that commits was followed by a fault
\* of its own.
RepeatsCounted ==
  \A e \in Event : accepted[e] <= faults + IF Told(e) THEN 1 ELSE 0

Consistent == TypeOK /\ Progress /\ RepeatsCounted /\ TablesAgree /\ NoneLost

-----------------------------------------------------------------------------
LEMMA EventOf ==
  ASSUME TypeOK, NEW q \in Run
  PROVE  event[q] \in Event
BY DEF TypeOK

LEMMA SomeEventIsOne == SomeEvent \in Event
BY DispatchAssumption DEF SomeEvent

LEMMA FaultCounts ==
  ASSUME TypeOK, Fault
  PROVE  faults' \in 0 .. MaxFaults /\ faults' = faults + 1
BY DispatchAssumption DEF TypeOK, Fault

\* The transaction of q commits a row of its own.
LEMMA CommittedType ==
  ASSUME TypeOK, Progress, NEW q \in Run, stage[q] = "done", Committed(q)
  PROVE  /\ processed' \subseteq Event
         /\ deliveries' \in [Event -> [Statuses -> Nat]]
BY EventOf DEF Committed, Progress, DraftFollows, TypeOK, Statuses

\* What an INSERT comes to, with either columns.
LEMMA InsertOutcomes ==
  ASSUME NEW e
  PROVE  /\ InsertOutcome(e) \in {"duplicate", "inserted", "failed"}
         /\ InsertOutcome(e) = "duplicate" => e \in processed
         /\ InsertOutcome(e) = "inserted" => e \notin processed
         /\ ~ColumnsMatch => InsertOutcome(e) = "failed"
BY DispatchAssumption DEF InsertOutcome

LEMMA TypeStep ==
  ASSUME TypeOK, Progress, [Next]_vars
  PROVE  TypeOK'
<1>1. CASE UNCHANGED vars
  BY <1>1 DEF vars, TypeOK
<1>2. ASSUME NEW q \in Run, NEW e \in Event, Deliver(q, e)
      PROVE  TypeOK'
  BY <1>2 DEF Deliver, At, TypeOK, Stages
<1>3. ASSUME NEW q \in Run,
             Insert(q) \/ Create(q) \/ MarkSent(q) \/ MarkFailed(q)
      PROVE  TypeOK'
  BY <1>3, InsertOutcomes
  DEF Insert, Create, MarkSent, MarkFailed, At, Draft, TypeOK, Stages, Statuses
<1>4. ASSUME NEW q \in Run, Send(q) \/ SendThrows(q)
      PROVE  TypeOK'
  <2>1. accepted' \in [Event -> Nat]
    BY <1>4, EventOf DEF Send, SendThrows, TypeOK
  <2>2. faults' \in 0 .. MaxFaults
    BY <1>4, FaultCounts DEF Send, SendThrows, TypeOK
  <2> QED
    BY <1>4, <2>1, <2>2 DEF Send, SendThrows, At, TypeOK, Stages
<1>5. ASSUME NEW q \in Run, Commit(q)
      PROVE  TypeOK'
  BY <1>5, CommittedType DEF Commit, At, Draft, TypeOK, Stages
<1>6. ASSUME NEW q \in Run, Severed(q)
      PROVE  /\ processed' \subseteq Event
             /\ deliveries' \in [Event -> [Statuses -> Nat]]
  BY <1>6, CommittedType DEF Severed, TypeOK
<1>7. ASSUME NEW q \in Run, Rollback(q) \/ Crash(q)
      PROVE  TypeOK'
  BY <1>6, <1>7, FaultCounts, SomeEventIsOne
  DEF Rollback, Crash, Finish, At, Draft, TypeOK, Stages
<1>8. ASSUME NEW q \in Run, Ack(q) \/ Nack(q)
      PROVE  TypeOK'
  <2>1. Finish(q) /\ queued' \subseteq queued
    BY <1>8 DEF Ack, Nack
  <2>2. /\ stage' \in [Run -> Stages]
        /\ event' \in [Run -> Event]
        /\ status' \in [Run -> Statuses \cup {"none"}]
    BY <2>1, SomeEventIsOne DEF Finish, At, Draft, TypeOK, Stages
  <2> QED
    BY <1>8, <2>1, <2>2 DEF Ack, Nack, TypeOK
<1> QED
  BY <1>1, <1>2, <1>3, <1>4, <1>5, <1>7, <1>8 DEF Next, Handle

-----------------------------------------------------------------------------
\* What a step of q does to stages, drafts and events it does to those of q.
LEMMA OnlyOne ==
  ASSUME TypeOK, NEW q \in Run,
         \/ Handle(q) \/ Rollback(q) \/ Crash(q)
         \/ \E e \in Event : Deliver(q, e)
  PROVE  \A p \in Run \ {q} :
           stage'[p] = stage[p] /\ status'[p] = status[p] /\ event'[p] = event[p]
BY DEF TypeOK, Handle, Deliver, Insert, Create, Send, SendThrows, MarkSent,
       MarkFailed, Rollback, Commit, Ack, Nack, Crash, Finish, At, Draft

LEMMA ProgressStep ==
  ASSUME TypeOK, Progress, [Next]_vars
  PROVE  Progress'
<1> USE DEF Progress, TransactionIsNew, OneTransaction, DraftFollows,
            SentIsAccepted, EndedIsProcessed, InTransaction
<1>0. ASSUME NEW q \in Run, Handle(q) \/ Rollback(q) \/ Crash(q)
      PROVE  \A p \in Run \ {q} :
               /\ stage'[p] = stage[p] /\ status'[p] = status[p]
               /\ event'[p] = event[p]
  BY <1>0, OnlyOne
<1>1. CASE UNCHANGED vars
  BY <1>1 DEF vars
<1>2. ASSUME NEW q \in Run, NEW e \in Event, Deliver(q, e)
      PROVE  Progress'
  BY <1>2 DEF Deliver, At, TypeOK
<1>3. ASSUME NEW q \in Run, Insert(q)
      PROVE  Progress'
  BY <1>3, InsertOutcomes DEF Insert, Locked, At, TypeOK
<1>4. ASSUME NEW q \in Run, Create(q) \/ MarkSent(q) \/ MarkFailed(q)
      PROVE  Progress'
  <2>1. \/ stage[q] = "inserted" /\ stage'[q] = "created"
        \/ stage[q] = "sent" /\ stage'[q] = "done" /\ status'[q] = "SENT"
        \/ stage'[q] = "failed"
    BY <1>4 DEF Create, MarkSent, MarkFailed, At, Draft, TypeOK
  <2>2. UNCHANGED <<event, processed, accepted>>
    BY <1>4 DEF Create, MarkSent, MarkFailed
  <2> QED
    BY <1>0, <1>4, <2>1, <2>2 DEF Handle
<1>5. ASSUME NEW q \in Run, Send(q)
      PROVE  Progress'
  BY <1>5, EventOf DEF Send, At, TypeOK
<1>6. ASSUME NEW q \in Run, SendThrows(q)
      PROVE  Progress'
  BY <1>6, EventOf DEF SendThrows, At, TypeOK
<1>7. ASSUME NEW q \in Run, Commit(q)
      PROVE  Progress'
  BY <1>7 DEF Commit, Committed, At, Draft, TypeOK
<1>8. ASSUME NEW q \in Run, Rollback(q) \/ Crash(q)
      PROVE  Progress'
  <2>1. stage'[q] \in {"failed", "free"}
    BY <1>8 DEF Rollback, Crash, Finish, At, TypeOK
  <2>2. /\ accepted' = accepted
        /\ \/ processed' = processed
           \/ stage[q] = "done" /\ processed' = processed \cup {event[q]}
    BY <1>8 DEF Rollback, Crash, Severed, Committed
  <2> QED
    BY <1>0, <1>8, <2>1, <2>2
<1>9. ASSUME NEW q \in Run, Ack(q) \/ Nack(q)
      PROVE  Progress'
  <2>1. stage'[q] = "free" /\ UNCHANGED <<processed, accepted>>
    BY <1>9 DEF Ack, Nack, Finish, At, TypeOK
  <2> QED
    BY <1>0, <1>9, <2>1 DEF Handle
<1> QED
  BY <1>1, <1>2, <1>3, <1>4, <1>5, <1>6, <1>7, <1>8, <1>9 DEF Next, Handle

-----------------------------------------------------------------------------
\* An acceptance of an event whose transaction is at "created" is the first
\* since the last fault.
LEMMA CreatedIsUntold ==
  ASSUME Progress, NEW q \in Run, stage[q] = "created"
  PROVE  ~Told(event[q])
BY DEF Progress, TransactionIsNew, OneTransaction, InTransaction, Told

LEMMA RepeatsStep ==
  ASSUME TypeOK, Progress, RepeatsCounted, [Next]_vars
  PROVE  RepeatsCounted'
<1>1. CASE UNCHANGED vars
  BY <1>1 DEF vars, RepeatsCounted, Told
<1>2. ASSUME UNCHANGED <<accepted, faults>>, \A e \in Event : Told(e) => Told(e)'
      PROVE  RepeatsCounted'
  BY <1>2 DEF RepeatsCounted, TypeOK
<1>3. ASSUME NEW q \in Run,
             \/ \E e \in Event : Deliver(q, e)
             \/ Insert(q) \/ Create(q) \/ MarkSent(q) \/ MarkFailed(q)
             \/ Commit(q) \/ Ack(q) \/ Nack(q)
      PROVE  RepeatsCounted'
  <2>1. UNCHANGED <<accepted, faults>> /\ processed \subseteq processed'
    BY <1>3
    DEF Deliver, Insert, Create, MarkSent, MarkFailed, Commit, Committed, Ack, Nack
  <2>2. \A p \in Run \ {q} : stage'[p] = stage[p] /\ event'[p] = event[p]
    BY <1>3, OnlyOne DEF Handle
  <2>3. stage[q] \in {"sent", "done"} =>
          /\ event'[q] = event[q]
          /\ stage'[q] \in {"sent", "done"} \/ event[q] \in processed'
    BY <1>3
    DEF Deliver, Insert, Create, MarkSent, MarkFailed, Commit, Committed, Ack,
        Nack, At, TypeOK
  <2> QED
    BY <1>2, <2>1, <2>2, <2>3 DEF Told
<1>4. ASSUME NEW q \in Run, Send(q)
      PROVE  RepeatsCounted'
  <2>1. /\ accepted' = [accepted EXCEPT ![event[q]] = @ + 1]
        /\ stage' = [stage EXCEPT ![q] = "sent"]
        /\ stage[q] = "created"
        /\ UNCHANGED <<event, processed, faults>>
    BY <1>4 DEF Send, At
  <2>2. ~Told(event[q])
    BY <2>1, CreatedIsUntold
  <2>3. \A e \in Event : Told(e)' <=> Told(e) \/ e = event[q]
    BY <2>1 DEF Told, TypeOK
  <2> QED
    BY <2>1, <2>2, <2>3, EventOf DEF RepeatsCounted, TypeOK
<1>5. ASSUME NEW q \in Run, SendThrows(q)
      PROVE  RepeatsCounted'
  <2>1. /\ stage' = [stage EXCEPT ![q] = "refused"] /\ stage[q] = "created"
        /\ UNCHANGED <<event, processed>>
        /\ \/ UNCHANGED <<accepted, faults>>
           \/ /\ Fault
              /\ \/ UNCHANGED accepted
                 \/ accepted' = [accepted EXCEPT ![event[q]] = @ + 1]
    BY <1>5 DEF SendThrows, At
  <2>2. \A e \in Event : Told(e)' <=> Told(e)
    BY <2>1 DEF Told, TypeOK
  <2>3. \A e \in Event : accepted'[e] - accepted[e] <= faults' - faults
    BY <2>1, EventOf, FaultCounts DEF TypeOK
  <2>4. /\ accepted' \in [Event -> Nat] /\ faults' \in Int
        /\ faults \in Int
    BY <2>1, EventOf, FaultCounts DEF TypeOK
  <2> QED
    BY <2>2, <2>3, <2>4 DEF RepeatsCounted, TypeOK
<1>6. ASSUME NEW q \in Run, Rollback(q) \/ Crash(q)
      PROVE  RepeatsCounted'
  <2>1. accepted' = accepted /\ Fault
    BY <1>6 DEF Rollback, Crash
  <2>2. \A e \in Event : accepted[e] <= faults + 1
    BY DEF RepeatsCounted, TypeOK
  <2>3. \A e \in Event : e \notin processed' => e \notin processed
    BY <1>6 DEF Rollback, Crash, Severed, Committed
  <2> QED
    BY <2>1, <2>2, <2>3, FaultCounts DEF RepeatsCounted, TypeOK
<1> QED
  BY <1>1, <1>3, <1>4, <1>5, <1>6 DEF Next, Handle

-----------------------------------------------------------------------------
\* What a transaction commits is one row SENT for an event that had none, and
\* the provider has taken the notification.
LEMMA CommittedAgrees ==
  ASSUME TypeOK, Progress, TablesAgree, NEW q \in Run, stage[q] = "done",
         Committed(q), UNCHANGED accepted
  PROVE  TablesAgree'
<1>1. event[q] \in Event \ processed /\ status[q] = "SENT" /\ accepted[event[q]] > 0
  BY EventOf
  DEF Progress, TransactionIsNew, InTransaction, DraftFollows, SentIsAccepted
<1>2. deliveries' = [deliveries EXCEPT ![event[q]]["SENT"] = @ + 1]
  BY <1>1 DEF Committed
<1>3. deliveries'[event[q]] = [s \in Statuses |-> IF s = "SENT" THEN 1 ELSE 0]
  <2>1. deliveries[event[q]] = [s \in Statuses |-> 0]
    BY <1>1 DEF TablesAgree
  <2>2. deliveries'[event[q]] = [deliveries[event[q]] EXCEPT !["SENT"] = @ + 1]
    BY <1>1, <1>2 DEF TypeOK
  <2> QED
    BY <2>1, <2>2 DEF Statuses
<1>4. \A e \in Event \ {event[q]} : deliveries'[e] = deliveries[e]
  BY <1>2 DEF TypeOK
<1>5. processed' = processed \cup {event[q]}
  BY DEF Committed
<1> QED
  BY <1>1, <1>3, <1>4, <1>5 DEF TablesAgree

LEMMA TablesStep ==
  ASSUME TypeOK, Progress, TablesAgree, NoneLost, [Next]_vars
  PROVE  TablesAgree' /\ NoneLost'
<1>1. CASE UNCHANGED <<queued, processed, deliveries, accepted>>
  BY <1>1 DEF TablesAgree, NoneLost
<1>2. ASSUME NEW q \in Run, Send(q) \/ SendThrows(q)
      PROVE  TablesAgree' /\ NoneLost'
  <2>1. \A e \in Event : accepted'[e] >= accepted[e]
    BY <1>2, EventOf DEF Send, SendThrows, TypeOK
  <2>2. accepted' \in [Event -> Nat]
    BY <1>2, EventOf DEF Send, SendThrows, TypeOK
  <2>3. UNCHANGED <<queued, processed, deliveries>>
    BY <1>2 DEF Send, SendThrows
  <2> QED
    BY <2>1, <2>2, <2>3 DEF TablesAgree, NoneLost, TypeOK
<1>3. ASSUME NEW q \in Run, Ack(q)
      PROVE  TablesAgree' /\ NoneLost'
  <2>1. event[q] \in processed
    BY <1>3 DEF Ack, Progress, EndedIsProcessed
  <2> QED
    BY <1>3, <2>1 DEF Ack, TablesAgree, NoneLost
<1>4. ASSUME NEW q \in Run, Commit(q) \/ Rollback(q) \/ Crash(q)
      PROVE  TablesAgree' /\ NoneLost'
  <2>1. /\ UNCHANGED <<queued, accepted>>
        /\ \/ UNCHANGED <<processed, deliveries>>
           \/ stage[q] = "done" /\ Committed(q)
    BY <1>4 DEF Commit, Rollback, Crash, Severed
  <2> QED
    BY <1>1, <2>1, CommittedAgrees DEF Committed, NoneLost
<1>5. ASSUME NEW q \in Run,
             \/ \E e \in Event : Deliver(q, e)
             \/ Insert(q) \/ Create(q) \/ MarkSent(q) \/ MarkFailed(q) \/ Nack(q)
      PROVE  UNCHANGED <<queued, processed, deliveries, accepted>>
  BY <1>5 DEF Deliver, Insert, Create, MarkSent, MarkFailed, Nack
<1> QED
  BY <1>1, <1>2, <1>3, <1>4, <1>5 DEF Next, Handle, vars

-----------------------------------------------------------------------------
LEMMA ConsistentInit == Init => Consistent
<1> SUFFICES ASSUME Init
             PROVE  Consistent
  OBVIOUS
<1> USE DEF Init
<1>1. TypeOK
  BY SomeEventIsOne, DispatchAssumption DEF TypeOK, Stages, Statuses
<1>2. Progress
  BY DEF Progress, TransactionIsNew, OneTransaction, DraftFollows,
         SentIsAccepted, EndedIsProcessed, InTransaction
<1>3. RepeatsCounted /\ TablesAgree /\ NoneLost
  BY DEF RepeatsCounted, Told, TablesAgree, NoneLost
<1> QED
  BY <1>1, <1>2, <1>3 DEF Consistent

LEMMA ConsistentStep == Consistent /\ [Next]_vars => Consistent'
BY TypeStep, ProgressStep, RepeatsStep, TablesStep DEF Consistent

-----------------------------------------------------------------------------
(***************************************************************************)
(* The database that prisma db push makes.                                 *)
(***************************************************************************)

\* No message is acknowledged and the provider took nothing.
NothingHappens ==
  queued = Event /\ processed = {} /\ \A e \in Event : accepted[e] = 0

\* No run gets beyond the INSERT.
Refusing == \A q \in Run : stage[q] \in {"free", "received", "failed"}

Stuck == ~ColumnsMatch => NothingHappens /\ Refusing

LEMMA StuckStep == TypeOK /\ Stuck /\ [Next]_vars => Stuck'
<1> SUFFICES ASSUME TypeOK, ~ColumnsMatch, NothingHappens, Refusing, [Next]_vars
             PROVE  NothingHappens' /\ Refusing'
  BY DEF Stuck
<1>1. CASE UNCHANGED vars
  BY <1>1 DEF vars, NothingHappens, Refusing
<1>2. ASSUME NEW q \in Run, NEW e \in Event, Deliver(q, e)
      PROVE  NothingHappens' /\ Refusing'
  BY <1>2 DEF Deliver, At, TypeOK, NothingHappens, Refusing
<1>3. ASSUME NEW q \in Run, Insert(q)
      PROVE  NothingHappens' /\ Refusing'
  BY <1>3, InsertOutcomes DEF Insert, At, TypeOK, NothingHappens, Refusing
<1>4. ASSUME NEW q \in Run, Nack(q) \/ Crash(q)
      PROVE  NothingHappens' /\ Refusing'
  BY <1>4 DEF Nack, Crash, Severed, Finish, At, TypeOK, NothingHappens, Refusing
<1>5. ASSUME NEW q \in Run,
             \/ Create(q) \/ Send(q) \/ SendThrows(q) \/ MarkSent(q)
             \/ MarkFailed(q) \/ Commit(q) \/ Ack(q) \/ Rollback(q)
      PROVE  FALSE
  BY <1>5 DEF Create, Send, SendThrows, MarkSent, MarkFailed, Commit, Ack,
              Rollback, InTransaction, Refusing
<1> QED
  BY <1>1, <1>2, <1>3, <1>4, <1>5 DEF Next, Handle

-----------------------------------------------------------------------------
(***************************************************************************)
(* The theorems.                                                           *)
(***************************************************************************)

\* Every variable keeps its type, and faults stay within their bound.
THEOREM DispatchTypeCorrect == Spec => []TypeOK
<1>1. Consistent => TypeOK
  BY DEF Consistent
<1> QED
  BY <1>1, ConsistentInit, ConsistentStep, PTL DEF Spec

\* The tables of notification-service tell the truth of each other and of the
\* provider: what a rolled-back run wrote of a delivery is gone, and one whose
\* event is processed is there once, as SENT (dispatch in markProcessed).
THEOREM TablesTellTheTruth == Spec => []TablesAgree
<1>1. Consistent => TablesAgree
  BY DEF Consistent
<1> QED
  BY <1>1, ConsistentInit, ConsistentStep, PTL DEF Spec

\* A customer is told once, and once more for each failure at most, of any
\* number of redeliveries that run at the same time (the provider is called
\* inside the transaction).
THEOREM ToldOncePerFault == Spec => []RepeatsNeedFaults
<1>1. Consistent => RepeatsNeedFaults
  BY DEF Consistent, RepeatsCounted, RepeatsNeedFaults, TypeOK
<1> QED
  BY <1>1, ConsistentInit, ConsistentStep, PTL DEF Spec

\* No message leaves the queue before its delivery is committed (handleMessage
\* acknowledges what was processed or is a duplicate).
THEOREM NoNotificationLost == Spec => []NoneLost
<1>1. Consistent => NoneLost
  BY DEF Consistent
<1> QED
  BY <1>1, ConsistentInit, ConsistentStep, PTL DEF Spec

\* On the database that the repository's schema makes, notification-service
\* tells nobody anything and takes no message off its queues: the INSERT of
\* markProcessed names columns that table does not have.
THEOREM SchemaStopsDelivery == Spec => [](~ColumnsMatch => NothingHappens)
<1>1. Init => TypeOK /\ Stuck
  <2>1. Init => Consistent
    BY ConsistentInit
  <2> QED
    BY <2>1 DEF Consistent, Init, Stuck, NothingHappens, Refusing
<1>2. Consistent /\ Stuck /\ [Next]_vars => Stuck'
  BY StuckStep DEF Consistent
<1>3. Stuck => (~ColumnsMatch => NothingHappens)
  BY DEF Stuck
<1> QED
  BY <1>1, <1>2, <1>3, ConsistentInit, ConsistentStep, PTL DEF Spec
=============================================================================
