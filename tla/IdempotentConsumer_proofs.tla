---------------------- MODULE IdempotentConsumer_proofs ----------------------
(***************************************************************************)
(* Theorems about IdempotentConsumer: for any workers, copies, events and  *)
(* faults, its types, one settler for each message, no second effect, and  *)
(* that it implements Inbox.                                               *)
(***************************************************************************)
EXTENDS IdempotentConsumer, FiniteSetTheorems, TLAPS

-----------------------------------------------------------------------------
(***************************************************************************)
(* The invariant.                                                          *)
(***************************************************************************)

\* A run that can settle a copy is at work on it, and the broker waits for it.
LiveIsUnacked ==
  \A q \in Run : live[q] => stage[q] # "free" /\ where[copy[q]] = "unacked"

OneLive ==
  \A q \in Run, p \in Run : live[q] /\ live[p] /\ copy[q] = copy[p] => q = p

UnackedIsLive ==
  \A c \in Copy : where[c] = "unacked" => \E q \in Run : live[q] /\ copy[q] = c

Settlers == LiveIsUnacked /\ OneLive /\ UnackedIsLive

\* The events of the open transactions are new, and all different.
InsertedIsNew ==
  \A q \in Run : stage[q] = "inserted" => Carries(q) \notin processed

OneInserts ==
  \A q \in Run, p \in Run :
    stage[q] = "inserted" /\ stage[p] = "inserted" /\ Carries(q) = Carries(p)
      => q = p

DoneIsProcessed ==
  \A q \in Run : stage[q] \in {"processed", "duplicate"} => Carries(q) \in processed

AppliedOnce ==
  \A e \in Event : applied[e] = IF e \in processed THEN 1 ELSE 0

HandledIsSent ==
  \A q \in Run : stage[q] # "free" => where[copy[q]] # "unsent"

Effects ==
  InsertedIsNew /\ OneInserts /\ DoneIsProcessed /\ AppliedOnce /\ HandledIsSent

Consistent == TypeOK /\ Settlers /\ Effects

-----------------------------------------------------------------------------
LEMMA SomeCopy == NoCopy \in Copy
BY ConsumerAssumption DEF NoCopy

LEMMA WorkerOf ==
  ASSUME NEW q \in Run
  PROVE  q[1] \in Worker
BY DEF Run

LEMMA EventCarried ==
  ASSUME TypeOK, NEW q \in Run
  PROVE  copy[q] \in Copy /\ Carries(q) \in Event
BY ConsumerAssumption DEF TypeOK, Carries

\* The end of a process leaves what its runs had not settled to the queue, and
\* their transactions without effect.
LEMMA GoDownKeeps ==
  ASSUME Consistent, NEW w \in Worker, GoDown(w), UNCHANGED database,
         faults' \in Nat
  PROVE  Consistent'
<1> USE DEF GoDown, Requeue, database
<1>1. TypeOK'
  BY SomeCopy DEF Consistent, TypeOK, Stages
<1>2. \A q \in Run : stage'[q] # "free" =>
        stage'[q] = stage[q] /\ copy'[q] = copy[q] /\ q[1] # w
  BY DEF Consistent, TypeOK
<1>3. \A q \in Run : live'[q] => live[q] /\ copy'[q] = copy[q] /\ q[1] # w
                                 /\ stage'[q] = stage[q]
  BY DEF Consistent, TypeOK
<1>4. LiveIsUnacked' /\ OneLive'
  BY <1>3, EventCarried
  DEF Consistent, TypeOK, Settlers, LiveIsUnacked, OneLive
<1>5. UnackedIsLive'
  BY DEF Consistent, TypeOK, Settlers, LiveIsUnacked, UnackedIsLive
<1>6. Effects'
  BY <1>2, EventCarried
  DEF Consistent, TypeOK, Effects, InsertedIsNew, OneInserts, DoneIsProcessed,
      AppliedOnce, HandledIsSent, Carries
<1> QED
  BY <1>1, <1>4, <1>5, <1>6 DEF Consistent, Settlers

LEMMA SettleKeeps ==
  ASSUME Consistent, NEW q \in Run, NEW verdict \in {"ready", "gone", "dlq"},
         Settle(q, verdict), UNCHANGED <<database, faults>>
  PROVE  Consistent'
<1>1. CASE ~live[q]
  <2>1. faults' \in Nat
    BY DEF Consistent, TypeOK
  <2> QED
    BY <1>1, <2>1, GoDownKeeps, WorkerOf DEF Settle
<1>2. CASE live[q]
  <2> USE <1>2 DEF Settle, At, database, worker
  <2>1. TypeOK'
    BY SomeCopy, EventCarried DEF Consistent, TypeOK, Stages
  <2>2. \A p \in Run : p # q =>
          live'[p] = live[p] /\ copy'[p] = copy[p] /\ stage'[p] = stage[p]
    BY DEF Consistent, TypeOK
  <2>3. ~live'[q] /\ stage'[q] = "free"
    BY DEF Consistent, TypeOK
  <2>4. \A c \in Copy : where'[c] = IF c = copy[q] THEN verdict ELSE where[c]
    BY DEF Consistent, TypeOK
  <2>5. LiveIsUnacked' /\ OneLive'
    BY <2>2, <2>3, <2>4, EventCarried
    DEF Consistent, Settlers, LiveIsUnacked, OneLive
  <2>6. UnackedIsLive'
    BY <2>2, <2>3, <2>4 DEF Consistent, Settlers, UnackedIsLive
  <2>7. Effects'
    BY <2>2, <2>3, <2>4, EventCarried
    DEF Consistent, Effects, InsertedIsNew, OneInserts, DoneIsProcessed,
        AppliedOnce, HandledIsSent, Carries
  <2> QED
    BY <2>1, <2>5, <2>6, <2>7 DEF Consistent, Settlers
<1> QED
  BY <1>1, <1>2

LEMMA PublishKeeps ==
  ASSUME Consistent, NEW c \in Copy, Publish(c)
  PROVE  Consistent'
<1> USE DEF Publish, worker, run, database
<1>1. TypeOK'
  BY DEF Consistent, TypeOK
<1>2. Settlers'
  BY EventCarried
  DEF Consistent, TypeOK, Settlers, LiveIsUnacked, OneLive, UnackedIsLive
<1>3. Effects'
  BY EventCarried
  DEF Consistent, TypeOK, Effects, InsertedIsNew, OneInserts, DoneIsProcessed,
      AppliedOnce, HandledIsSent, Carries
<1> QED
  BY <1>1, <1>2, <1>3 DEF Consistent

LEMMA DeliverKeeps ==
  ASSUME Consistent, NEW c \in Copy, Deliver(c)
  PROVE  Consistent'
<1> USE DEF worker, database, At
<1> PICK q \in Run :
      /\ stage[q] = "free"
      /\ stage' = [stage EXCEPT ![q] = "received"]
      /\ copy' = [copy EXCEPT ![q] = c]
      /\ live' = [live EXCEPT ![q] = TRUE]
  BY DEF Deliver
<1>1. TypeOK'
  BY DEF Consistent, TypeOK, Stages, Deliver
<1>2. /\ \A p \in Run : p # q =>
           live'[p] = live[p] /\ copy'[p] = copy[p] /\ stage'[p] = stage[p]
      /\ live'[q] /\ copy'[q] = c /\ stage'[q] = "received"
      /\ \A d \in Copy : where'[d] = IF d = c THEN "unacked" ELSE where[d]
      /\ where[c] = "ready"
  BY DEF Consistent, TypeOK, Deliver
<1>3. Settlers'
  BY <1>2, EventCarried
  DEF Consistent, TypeOK, Settlers, LiveIsUnacked, OneLive, UnackedIsLive
<1>4. Effects'
  <2> UNCHANGED <<processed, applied>>
    BY DEF Deliver
  <2> QED
    BY <1>2, EventCarried
    DEF Consistent, Effects, InsertedIsNew, OneInserts, DoneIsProcessed,
        AppliedOnce, HandledIsSent, Carries
<1> QED
  BY <1>1, <1>3, <1>4 DEF Consistent

LEMMA DisconnectKeeps ==
  ASSUME Consistent, NEW w \in Worker, Disconnect(w)
  PROVE  Consistent'
<1> USE DEF Disconnect, Requeue, Fault, database
<1>1. TypeOK'
  <2>1. where' \in [Copy -> {"unsent", "ready", "unacked", "gone", "dlq"}]
    BY DEF Consistent, TypeOK
  <2>2. linked' \in [Worker -> BOOLEAN] /\ live' \in [Run -> BOOLEAN]
    BY DEF Consistent, TypeOK
  <2>3. faults' \in Nat
    BY DEF Consistent, TypeOK
  <2> QED
    BY <2>1, <2>2, <2>3 DEF Consistent, TypeOK
<1>2. \A q \in Run : live'[q] => live[q] /\ q[1] # w
  BY DEF Consistent, TypeOK
<1>3. LiveIsUnacked' /\ OneLive'
  BY <1>2, EventCarried
  DEF Consistent, TypeOK, Settlers, LiveIsUnacked, OneLive
<1>4. UnackedIsLive'
  BY DEF Consistent, TypeOK, Settlers, LiveIsUnacked, UnackedIsLive
<1>5. Effects'
  BY EventCarried
  DEF Consistent, TypeOK, Effects, InsertedIsNew, OneInserts, DoneIsProcessed,
      AppliedOnce, HandledIsSent, Carries
<1> QED
  BY <1>1, <1>3, <1>4, <1>5 DEF Consistent, Settlers

\* A step of handleMessage before its ack or nack.
LEMMA StageKeeps ==
  ASSUME Consistent, NEW q \in Run, NEW s \in Stages \ {"free"}, At(q, s),
         stage[q] # "free", UNCHANGED <<where, worker, copy, live>>
  PROVE  /\ stage' \in [Run -> Stages]
         /\ Settlers' /\ HandledIsSent'
         /\ \A p \in Run : stage'[p] = IF p = q THEN s ELSE stage[p]
         /\ \A p \in Run : Carries(p)' = Carries(p)
<1> USE DEF At
<1>1. /\ stage' \in [Run -> Stages]
      /\ \A p \in Run : stage'[p] = IF p = q THEN s ELSE stage[p]
  BY DEF Consistent, TypeOK
<1> QED
  BY <1>1
  DEF Consistent, Settlers, LiveIsUnacked, OneLive, UnackedIsLive, Effects,
      HandledIsSent, Carries

LEMMA InsertKeeps ==
  ASSUME Consistent, NEW q \in Run, Insert(q)
  PROVE  Consistent'
<1> DEFINE s == IF Carries(q) \in processed THEN "duplicate" ELSE "inserted"
<1>1. s \in Stages \ {"free"} /\ At(q, s) /\ stage[q] # "free"
  BY DEF Insert, Stages
<1>2. UNCHANGED <<where, worker, copy, live, database, faults>>
  BY DEF Insert
<1> HIDE DEF s
<1>3. /\ stage' \in [Run -> Stages]
      /\ Settlers' /\ HandledIsSent'
      /\ \A p \in Run : stage'[p] = IF p = q THEN s ELSE stage[p]
      /\ \A p \in Run : Carries(p)' = Carries(p)
  BY <1>1, <1>2, StageKeeps
<1>4. TypeOK'
  BY <1>2, <1>3 DEF Consistent, TypeOK, worker, database
<1>5. InsertedIsNew' /\ OneInserts' /\ DoneIsProcessed' /\ AppliedOnce'
  BY <1>2, <1>3
  DEF s, Insert, Locked, Consistent, Effects, InsertedIsNew, OneInserts,
      DoneIsProcessed, AppliedOnce, database
<1> QED
  BY <1>3, <1>4, <1>5 DEF Consistent, Effects

LEMMA FailKeeps ==
  ASSUME Consistent, NEW q \in Run, InsertFails(q) \/ HandlerThrows(q)
  PROVE  Consistent'
<1>1. At(q, "failed") /\ stage[q] # "free"
  BY DEF InsertFails, HandlerThrows
<1>2. UNCHANGED <<where, worker, copy, live, database>>
  BY DEF InsertFails, HandlerThrows
<1>3. /\ stage' \in [Run -> Stages]
      /\ Settlers' /\ HandledIsSent'
      /\ \A p \in Run : stage'[p] = IF p = q THEN "failed" ELSE stage[p]
      /\ \A p \in Run : Carries(p)' = Carries(p)
  BY <1>1, <1>2, StageKeeps DEF Stages
<1>4. faults' \in Nat
  BY DEF InsertFails, HandlerThrows, Fault, Consistent, TypeOK
<1>5. TypeOK'
  BY <1>2, <1>3, <1>4 DEF Consistent, TypeOK, worker, database
<1>6. InsertedIsNew' /\ OneInserts' /\ DoneIsProcessed' /\ AppliedOnce'
  BY <1>2, <1>3
  DEF Consistent, Effects, InsertedIsNew, OneInserts, DoneIsProcessed,
      AppliedOnce, database
<1> QED
  BY <1>3, <1>5, <1>6 DEF Consistent, Effects

LEMMA CommitKeeps ==
  ASSUME Consistent, NEW q \in Run, Commit(q) \/ CommitUnanswered(q)
  PROVE  Consistent'
<1> PICK s \in {"processed", "failed"} : At(q, s)
  BY DEF Commit, CommitUnanswered
<1>1. stage[q] = "inserted" /\ Committed(q)
  BY DEF Commit, CommitUnanswered
<1>2. UNCHANGED <<where, worker, copy, live>>
  BY DEF Commit, CommitUnanswered
<1>3. /\ stage' \in [Run -> Stages]
      /\ Settlers' /\ HandledIsSent'
      /\ \A p \in Run : stage'[p] = IF p = q THEN s ELSE stage[p]
      /\ \A p \in Run : Carries(p)' = Carries(p)
  BY <1>1, <1>2, StageKeeps DEF Stages
<1>4. faults' \in Nat
  BY DEF Commit, CommitUnanswered, Fault, Consistent, TypeOK
<1>5. Carries(q) \in Event /\ Carries(q) \notin processed
  BY <1>1, EventCarried DEF Consistent, Effects, InsertedIsNew
<1>6. /\ processed' = processed \cup {Carries(q)}
      /\ applied' \in [Event -> Nat]
      /\ \A e \in Event :
           applied'[e] = IF e = Carries(q) THEN applied[e] + 1 ELSE applied[e]
  BY <1>1, <1>5 DEF Committed, Consistent, TypeOK
<1>7. TypeOK'
  BY <1>2, <1>3, <1>4, <1>5, <1>6 DEF Consistent, TypeOK, worker
<1>8. InsertedIsNew' /\ OneInserts' /\ DoneIsProcessed'
  BY <1>1, <1>3, <1>6
  DEF Consistent, Effects, InsertedIsNew, OneInserts, DoneIsProcessed
<1>9. AppliedOnce'
  BY <1>5, <1>6 DEF Consistent, Effects, AppliedOnce
<1> QED
  BY <1>3, <1>7, <1>8, <1>9 DEF Consistent, Effects

LEMMA LifeKeeps ==
  ASSUME Consistent, NEW w \in Worker, Reconnect(w) \/ Start(w)
  PROVE  Consistent'
<1>1. up' \in [Worker -> BOOLEAN] /\ linked' \in [Worker -> BOOLEAN]
  BY DEF Reconnect, Start, Consistent, TypeOK
<1>2. UNCHANGED <<where, run, database, faults>>
  BY DEF Reconnect, Start
<1> QED
  BY <1>1, <1>2
  DEF run, database, Consistent, TypeOK, Settlers, LiveIsUnacked, OneLive,
      UnackedIsLive, Effects, InsertedIsNew, OneInserts, DoneIsProcessed,
      AppliedOnce, HandledIsSent, Carries

LEMMA ConsistentInit == Init => Consistent
BY SomeCopy
DEF Init, Consistent, TypeOK, Stages, Settlers, LiveIsUnacked, OneLive,
    UnackedIsLive, Effects, InsertedIsNew, OneInserts, DoneIsProcessed,
    AppliedOnce, HandledIsSent

LEMMA ConsistentStep == Consistent /\ [Next]_vars => Consistent'
<1> SUFFICES ASSUME Consistent, [Next]_vars
             PROVE  Consistent'
  OBVIOUS
<1>1. CASE UNCHANGED vars
  BY <1>1
  DEF vars, worker, run, database, Consistent, TypeOK, Settlers, LiveIsUnacked,
      OneLive, UnackedIsLive, Effects, InsertedIsNew, OneInserts,
      DoneIsProcessed, AppliedOnce, HandledIsSent, Carries
<1>2. ASSUME NEW c \in Copy, Publish(c) \/ Deliver(c)
      PROVE  Consistent'
  BY <1>2, PublishKeeps, DeliverKeeps
<1>3. ASSUME NEW q \in Run, RejectInvalid(q) \/ Ack(q) \/ Nack(q)
      PROVE  Consistent'
  BY <1>3, SettleKeeps DEF RejectInvalid, Ack, Nack
<1>4. ASSUME NEW q \in Run,
             \/ Insert(q) \/ InsertFails(q) \/ HandlerThrows(q)
             \/ Commit(q) \/ CommitUnanswered(q)
      PROVE  Consistent'
  BY <1>4, InsertKeeps, FailKeeps, CommitKeeps
<1>5. ASSUME NEW w \in Worker, Crash(w)
      PROVE  Consistent'
  <2>1. faults' \in Nat
    BY <1>5 DEF Crash, Fault, Consistent, TypeOK
  <2> QED
    BY <1>5, <2>1, GoDownKeeps DEF Crash
<1>6. ASSUME NEW w \in Worker, Disconnect(w) \/ Reconnect(w) \/ Start(w)
      PROVE  Consistent'
  BY <1>6, DisconnectKeeps, LifeKeeps
<1> QED
  BY <1>1, <1>2, <1>3, <1>4, <1>5, <1>6 DEF Next, Handle

-----------------------------------------------------------------------------
(***************************************************************************)
(* The theorems.                                                           *)
(***************************************************************************)

\* Every variable of the consumer keeps its type, in any interleaving of runs,
\* lost connections and ends of processes.
THEOREM ConsumerTypeCorrect == Spec => []TypeOK
<1>1. Consistent => TypeOK
  BY DEF Consistent
<1> QED
  BY <1>1, ConsistentInit, ConsistentStep, PTL DEF Spec

\* A message the broker waits for has exactly one run that can ack or nack it,
\* and no other message has one (RabbitMQClient.consume and the channel a run
\* answers on).
THEOREM EachHasOneSettler == Spec => []OneSettler
<1>1. Consistent => OneSettler
  <2> SUFFICES ASSUME Consistent, NEW c \in Copy
               PROVE  Cardinality({q \in Run : live[q] /\ copy[q] = c})
                        = IF where[c] = "unacked" THEN 1 ELSE 0
    BY DEF OneSettler
  <2> DEFINE settlers == {q \in Run : live[q] /\ copy[q] = c}
  <2>1. CASE where[c] = "unacked"
    <3>1. PICK q \in Run : live[q] /\ copy[q] = c
      BY <2>1 DEF Consistent, Settlers, UnackedIsLive
    <3>2. settlers = {q}
      BY <3>1 DEF Consistent, Settlers, OneLive
    <3> QED
      BY <2>1, <3>2, FS_Singleton
  <2>2. CASE where[c] # "unacked"
    <3>1. settlers = {}
      BY <2>2 DEF Consistent, Settlers, LiveIsUnacked
    <3> QED
      BY <2>2, <3>1, FS_EmptySet
  <2> QED
    BY <2>1, <2>2
<1> QED
  BY <1>1, ConsistentInit, ConsistentStep, PTL DEF Spec

\* No transaction is open for an event that took effect (the unique constraint
\* of processed_messages and the insert that waits for it).
THEOREM NoneTakesEffectTwice == Spec => []NoSecondEffect
<1>1. Consistent => NoSecondEffect
  BY EventCarried
  DEF Consistent, Effects, InsertedIsNew, AppliedOnce, NoSecondEffect
<1> QED
  BY <1>1, ConsistentInit, ConsistentStep, PTL DEF Spec

-----------------------------------------------------------------------------
(***************************************************************************)
(* The consumer implements Inbox.                                          *)
(***************************************************************************)

\* What Inbox sees of where.
Place ==
  [c \in Copy |->
     IF where[c] \in {"ready", "unacked"} THEN "pending" ELSE where[c]]

Undeliverable == IF RetryOnError THEN Invalid ELSE Event

\* What comes back to the queue was pending and stays so.
LEMMA RequeueIsSilent ==
  ASSUME Consistent, NEW W \in SUBSET Worker, Requeue(W)
  PROVE  UNCHANGED Place
BY DEF Requeue, Place, Consistent, TypeOK, Settlers, LiveIsUnacked

\* A run moves its copy once, out of the pending ones; one that lost its
\* channel moves none.
LEMMA SettleMoves ==
  ASSUME Consistent, NEW q \in Run, NEW verdict \in {"ready", "gone", "dlq"},
         Settle(q, verdict)
  PROVE  \/ UNCHANGED Place
         \/ /\ verdict # "ready"
            /\ Place[copy[q]] = "pending"
            /\ Place' = [Place EXCEPT ![copy[q]] = verdict]
<1>1. CASE ~live[q]
  BY <1>1, RequeueIsSilent, WorkerOf DEF Settle, GoDown
<1>2. CASE live[q]
  <2>1. copy[q] \in Copy /\ where[copy[q]] = "unacked"
    BY <1>2, EventCarried DEF Consistent, Settlers, LiveIsUnacked
  <2>2. where' = [where EXCEPT ![copy[q]] = verdict]
    BY <1>2 DEF Settle
  <2> QED
    BY <2>1, <2>2 DEF Place, Consistent, TypeOK
<1> QED
  BY <1>1, <1>2

LEMMA InboxStep == Consistent /\ [Next]_vars => [Promise!Next]_Promise!vars
<1> SUFFICES ASSUME Consistent, [Next]_vars
             PROVE  Promise!Next \/ UNCHANGED <<Place, applied>>
  BY DEF Promise!vars, Place
<1> USE DEF worker, run, database
<1>1. CASE UNCHANGED vars
  BY <1>1 DEF vars, Place
<1>2. ASSUME NEW c \in Copy, Publish(c)
      PROVE  Promise!Next
  <2>1. Place[c] = "unsent" /\ Place' = [Place EXCEPT ![c] = "pending"]
    BY <1>2 DEF Publish, Place, Consistent, TypeOK
  <2> QED
    BY <1>2, <2>1 DEF Publish, Place, Promise!Next, Promise!Send, Promise!Move
<1>3. ASSUME NEW c \in Copy, Deliver(c)
      PROVE  UNCHANGED <<Place, applied>>
  BY <1>3 DEF Deliver, Place, Consistent, TypeOK
<1>4. ASSUME NEW q \in Run, Ack(q)
      PROVE  Promise!Next \/ UNCHANGED <<Place, applied>>
  <2>1. copy[q] \in Copy /\ applied[EventOf[copy[q]]] > 0
    BY <1>4, EventCarried
    DEF Ack, Consistent, Effects, DoneIsProcessed, AppliedOnce, Carries
  <2>2. \/ UNCHANGED Place
        \/ Place[copy[q]] = "pending" /\ Place' = [Place EXCEPT ![copy[q]] = "gone"]
    BY <1>4, SettleMoves DEF Ack
  <2> QED
    BY <1>4, <2>1, <2>2
    DEF Ack, Place, Promise!Next, Promise!Discard, Promise!Move
<1>5. ASSUME NEW q \in Run, RejectInvalid(q) \/ Nack(q)
      PROVE  Promise!Next \/ UNCHANGED <<Place, applied>>
  <2>1. copy[q] \in Copy /\ EventOf[copy[q]] \in Event
    BY EventCarried DEF Consistent, Carries
  <2>2. \/ UNCHANGED Place
        \/ /\ EventOf[copy[q]] \in Undeliverable
           /\ Place[copy[q]] = "pending"
           /\ Place' = [Place EXCEPT ![copy[q]] = "dlq"]
    <3>1. CASE RejectInvalid(q)
      BY <3>1, <2>1, SettleMoves DEF RejectInvalid, Undeliverable, Carries
    <3>2. CASE Nack(q)
      BY <3>2, <2>1, SettleMoves DEF Nack, Undeliverable
    <3> QED
      BY <1>5, <3>1, <3>2
  <2> QED
    BY <1>5, <2>1, <2>2
    DEF RejectInvalid, Nack, Place, Undeliverable, Promise!Next, Promise!Bury,
        Promise!Move
<1>6. ASSUME NEW q \in Run, Commit(q) \/ CommitUnanswered(q)
      PROVE  Promise!Next
  <2>1. stage[q] = "inserted" /\ Committed(q) /\ UNCHANGED where
    BY <1>6 DEF Commit, CommitUnanswered
  <2>2. copy[q] \in Copy /\ where[copy[q]] # "unsent"
    BY <2>1, EventCarried DEF Consistent, Effects, HandledIsSent
  <2>3. Carries(q) \in Event /\ applied[Carries(q)] = 0
    BY <2>1, EventCarried
    DEF Consistent, Effects, InsertedIsNew, AppliedOnce
  <2>4. applied' = [applied EXCEPT ![Carries(q)] = 1]
    BY <2>1, <2>3 DEF Committed, Consistent, TypeOK
  <2>5. EventOf[copy[q]] = Carries(q) /\ Place[copy[q]] # "unsent"
    BY <2>2 DEF Carries, Place
  <2> QED
    BY <2>1, <2>2, <2>3, <2>4, <2>5
    DEF Place, Promise!Next, Promise!Apply
<1>7. ASSUME NEW q \in Run, Insert(q) \/ InsertFails(q) \/ HandlerThrows(q)
      PROVE  UNCHANGED <<Place, applied>>
  BY <1>7 DEF Insert, InsertFails, HandlerThrows, Place
<1>8. ASSUME NEW w \in Worker, Disconnect(w) \/ Crash(w)
      PROVE  UNCHANGED <<Place, applied>>
  BY <1>8, RequeueIsSilent DEF Disconnect, Crash, GoDown
<1>9. ASSUME NEW w \in Worker, Reconnect(w) \/ Start(w)
      PROVE  UNCHANGED <<Place, applied>>
  BY <1>9 DEF Reconnect, Start, Place
<1> QED
  BY <1>1, <1>2, <1>3, <1>4, <1>5, <1>6, <1>7, <1>8, <1>9 DEF Next, Handle

\* The consumer implements Inbox: an event takes effect at most once, a message
\* is acknowledged only when its event has, and only what the consumer may
\* give up is dead-lettered, however runs, workers and lost connections
\* interleave (handleMessage over markProcessed).
THEOREM ConsumerImplementsInbox == Spec => ImplementsInbox
<1>1. Init => Promise!Init
  BY DEF Init, Promise!Init
<1> QED
  BY <1>1, ConsistentInit, ConsistentStep, InboxStep, PTL
  DEF Spec, ImplementsInbox, Promise!Spec
=============================================================================
