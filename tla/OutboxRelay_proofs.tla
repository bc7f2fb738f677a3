------------------------- MODULE OutboxRelay_proofs -------------------------
(***************************************************************************)
(* Theorems about OutboxRelay, for every number of relays, rows, attempts  *)
(* and faults, with their proofs.                                          *)
(***************************************************************************)
EXTENDS OutboxRelay, FiniteSetTheorems, WellFoundedInduction, TLAPS

-----------------------------------------------------------------------------
(***************************************************************************)
(* Operators.                                                              *)
(***************************************************************************)

\* A tick that handles a row.
Busy(r) == step[r] \notin {"idle", "claiming"}

BusyHasBatch == \A r \in Relay : Busy(r) => batch[r] # {}

\* Rows are numbered as createdAt orders them, so any of them include an oldest.
LEMMA OldestExists ==
  ASSUME NEW S \in SUBSET Nat, S # {}
  PROVE  \E i \in S : \A j \in S : i <= j
<1> DEFINE younger == OpToRel(<, Nat)
<1>1. IsWellFoundedOn(younger, Nat)
  BY NatLessThanWellFounded
<1>2. \A i, j \in Nat : j < i => <<j, i>> \in younger
  BY DEF OpToRel
<1> HIDE DEF younger
<1>3. PICK i \in S : \A j \in S : <<j, i>> \notin younger
  BY <1>1, WFMin
<1>4. \A j \in S : ~(j < i)
  BY <1>2, <1>3
<1> QED
  BY <1>4

\* First picks a member that none precedes.
LEMMA FirstOfRows ==
  ASSUME NEW S \in SUBSET Record, S # {}
  PROVE  First(S) \in S /\ \A j \in S : First(S) <= j
<1>1. S \in SUBSET Nat
  BY RelayAssumption
<1>2. \E i \in S : \A j \in S : i <= j
  BY <1>1, OldestExists
<1> QED
  BY <1>2 DEF First

LEMMA CurrentRow ==
  ASSUME TypeOK, BusyHasBatch, NEW r \in Relay, Busy(r)
  PROVE  Current(r) \in batch[r] /\ Current(r) \in Record
BY FirstOfRows DEF Current, TypeOK, BusyHasBatch

LEMMA ZerosType == Zeros \in [Record -> Nat]
BY DEF Zeros

LEMMA OldestRows == ASSUME NEW S, NEW n PROVE Oldest(S, n) \subseteq S
BY DEF Oldest

\* The next loop iteration, or the finally block, keeps the types.
LEMMA ProceedType ==
  ASSUME TypeOK, NEW r \in Relay,
         NEW rest \in SUBSET Record, NEW returned \in [Record -> Nat],
         Proceed(r, rest, returned)
  PROVE  /\ timer' \in [Relay -> {"none", "zero", "poll"}]
         /\ step' \in [Relay -> Steps]
         /\ batch' \in [Relay -> SUBSET Record]
         /\ seen' \in [Relay -> [Record -> Nat]]
         /\ tries' \in [Record -> Nat]
         /\ step'[r] \notin {"idle", "claiming"} => batch'[r] # {}
         /\ \A q \in Relay \ {r} : step'[q] = step[q] /\ batch'[q] = batch[q]
<1>1. CASE rest = {}
  <2>1. timer' \in [Relay -> {"none", "zero", "poll"}]
    BY <1>1 DEF Proceed, EndTick, Arm, TypeOK
  <2>2. step' = [step EXCEPT ![r] = "idle"] /\ step \in [Relay -> Steps]
    BY <1>1 DEF Proceed, EndTick, TypeOK
  <2>3. batch' = [batch EXCEPT ![r] = {}] /\ batch \in [Relay -> SUBSET Record]
    BY <1>1 DEF Proceed, EndTick, TypeOK
  <2>4. seen' \in [Relay -> [Record -> Nat]] /\ tries' \in [Record -> Nat]
    BY <1>1, ZerosType DEF Proceed, EndTick, TypeOK
  <2> QED
    BY <2>1, <2>2, <2>3, <2>4 DEF Steps
<1>2. CASE rest # {}
  <2>1. First(rest) \in Record
    BY <1>2, FirstOfRows
  <2>2. FailStep(returned[First(rest)]) \in {"failing", "dying"}
    BY DEF FailStep
  <2>3. timer' \in [Relay -> {"none", "zero", "poll"}] /\ tries' \in [Record -> Nat]
    BY <1>2, <2>1 DEF Proceed, Publish, TypeOK
  <2>4. PICK s \in {"sending", "failing", "dying"} : step' = [step EXCEPT ![r] = s]
    BY <1>2, <2>2 DEF Proceed, Publish
  <2>5. batch' = [batch EXCEPT ![r] = rest] /\ seen' = [seen EXCEPT ![r] = returned]
    BY <1>2 DEF Proceed, Publish
  <2> QED
    BY <1>2, <2>3, <2>4, <2>5 DEF TypeOK, Steps
<1> QED
  BY <1>1, <1>2

-----------------------------------------------------------------------------
(***************************************************************************)
(* Type correctness.                                                       *)
(***************************************************************************)

LEMMA TypeStep ==
  ASSUME TypeOK, BusyHasBatch, [Next]_vars
  PROVE  TypeOK' /\ BusyHasBatch'
<1> USE DEF table, process, client, history
<1>1. CASE UNCHANGED vars
  BY <1>1 DEF vars, TypeOK, BusyHasBatch, Busy
<1>2. ASSUME NEW r \in Relay, Loop(r)
      PROVE  TypeOK' /\ BusyHasBatch'
  <2>1. CASE Tick(r)
    BY <2>1 DEF Tick, TypeOK, BusyHasBatch, Busy, Steps
  <2>2. CASE Claim(r)
    <3> DEFINE claimed == Oldest(Pending, BatchSize)
               counted == CountedByClaim(claimed)
               returned == [i \in Record |-> IF i \in claimed THEN counted[i] ELSE 0]
    <3>1. claimed \in SUBSET Record
      BY OldestRows DEF Pending, TypeOK
    <3>2. counted \in [Record -> Nat]
      BY DEF CountedByClaim, TypeOK
    <3>3. returned \in [Record -> Nat]
      BY <3>2
    <3>4. Proceed(r, claimed, returned) /\ attempts' = counted
      BY <2>2 DEF Claim
    <3> HIDE DEF claimed, counted, returned
    <3> QED
      BY <2>2, <3>1, <3>2, <3>3, <3>4, ProceedType
      DEF Claim, TypeOK, BusyHasBatch, Busy
  <2>3. ASSUME MarkPublished(r) \/ MarkFailed(r) \/ MarkDead(r)
        PROVE  TypeOK' /\ BusyHasBatch'
    <3>1. Current(r) \in Record
      BY <2>3, CurrentRow DEF MarkPublished, MarkFailed, MarkDead, Busy
    <3>2. Counted(Current(r)) \in [Record -> Nat]
      BY <3>1 DEF Counted, TypeOK
    <3>3. batch[r] \ {Current(r)} \in SUBSET Record /\ seen[r] \in [Record -> Nat]
      BY DEF TypeOK
    <3> QED
      BY <2>3, <3>1, <3>2, <3>3, ProceedType
      DEF MarkPublished, MarkFailed, MarkDead, TypeOK, BusyHasBatch, Busy
  <2> QED
    BY <1>2, <2>1, <2>2, <2>3 DEF Loop
<1>3. ASSUME NEW r \in Relay, Channel(r)
      PROVE  TypeOK' /\ BusyHasBatch'
  <2>1. CASE BrokerAccepts(r)
    <3> DEFINE i == Current(r)
    <3>0. i \in Record /\ held' = [held EXCEPT ![i] = @ + 1]
      BY <2>1, CurrentRow DEF BrokerAccepts, Busy
    <3> HIDE DEF i
    <3>1. held' \in [Record -> Nat]
      BY <3>0 DEF TypeOK
    <3>2. step' = [step EXCEPT ![r] = "confirming"]
      BY <2>1 DEF BrokerAccepts
    <3> QED
      BY <2>1, <3>1, <3>2 DEF BrokerAccepts, TypeOK, BusyHasBatch, Busy, Steps
  <2>2. CASE BrokerConfirms(r)
    BY <2>2 DEF BrokerConfirms, TypeOK, BusyHasBatch, Busy, Steps
  <2>3. CASE BrokerRejects(r)
    BY <2>3 DEF BrokerRejects, FailStep, TypeOK, BusyHasBatch, Busy, Steps
  <2>4. CASE Reconnect(r)
    BY <2>4 DEF Reconnect, TypeOK, BusyHasBatch, Busy
  <2> QED
    BY <1>3, <2>1, <2>2, <2>3, <2>4 DEF Channel
<1>4. ASSUME NEW r \in Relay, GoDown(r), faults' \in Nat
      PROVE  TypeOK' /\ BusyHasBatch'
  BY <1>4, ZerosType DEF GoDown, TypeOK, BusyHasBatch, Busy, Steps
<1>5. ASSUME NEW r \in Relay, Shutdown(r)
      PROVE  TypeOK' /\ BusyHasBatch'
  <2>1. CASE Stop(r)
    BY <2>1 DEF Stop, TypeOK, BusyHasBatch, Busy
  <2>2. CASE Close(r)
    BY <2>2 DEF Close, FailStep, TypeOK, BusyHasBatch, Busy, Steps
  <2>3. CASE Exit(r)
    BY <2>3, <1>4 DEF Exit, TypeOK
  <2> QED
    BY <1>5, <2>1, <2>2, <2>3 DEF Shutdown
<1>6. ASSUME NEW r \in Relay, Failure(r)
      PROVE  TypeOK' /\ BusyHasBatch'
  <2> USE DEF Fault
  <2>1. CASE ClaimFails(r)
    BY <2>1, ZerosType
    DEF ClaimFails, EndTick, Arm, TypeOK, BusyHasBatch, Busy, Steps
  <2>2. CASE MarkPublishedThrows(r)
    <3>1. Current(r) \in Record
      BY <2>2, CurrentRow DEF MarkPublishedThrows, Busy
    <3>2. Counted(Current(r)) \in [Record -> Nat]
      BY <3>1 DEF Counted, TypeOK
    <3> QED
      BY <2>2, <3>1, <3>2
      DEF MarkPublishedThrows, FailStep, TypeOK, BusyHasBatch, Busy, Steps
  <2>3. CASE MarkThrows(r)
    <3>1. Current(r) \in Record
      BY <2>3, CurrentRow DEF MarkThrows, Busy
    <3>2. Counted(Current(r)) \in [Record -> Nat]
      BY <3>1 DEF Counted, TypeOK
    <3> QED
      BY <2>3, <3>1, <3>2, ZerosType
      DEF MarkThrows, EndTick, Arm, TypeOK, BusyHasBatch, Busy, Steps
  <2>4. CASE Disconnect(r)
    BY <2>4 DEF Disconnect, TypeOK, BusyHasBatch, Busy, Steps
  <2>5. CASE Crash(r)
    BY <2>5, <1>4 DEF Crash, TypeOK
  <2>6. CASE Terminate(r)
    BY <2>6 DEF Terminate, TypeOK, BusyHasBatch, Busy
  <2> QED
    BY <1>6, <2>1, <2>2, <2>3, <2>4, <2>5, <2>6 DEF Failure
<1>7. ASSUME NEW r \in Relay, Start(r)
      PROVE  TypeOK' /\ BusyHasBatch'
  BY <1>7 DEF Start, TypeOK, BusyHasBatch, Busy
<1>8. ASSUME NEW r \in Relay, NEW i \in Record, Commit(r, i) \/ Wake(r, i)
      PROVE  TypeOK' /\ BusyHasBatch'
  <2>1. CASE Commit(r, i)
    BY <2>1 DEF Commit, TypeOK, BusyHasBatch, Busy
  <2>2. CASE Wake(r, i)
    <3>1. timer' \in [Relay -> {"none", "zero", "poll"}]
      BY <2>2 DEF Wake, Arm, TypeOK
    <3> QED
      BY <2>2, <3>1 DEF Wake, TypeOK, BusyHasBatch, Busy
  <2> QED
    BY <1>8, <2>1, <2>2
<1> QED
  BY <1>1, <1>2, <1>3, <1>5, <1>6, <1>7, <1>8 DEF Next

LEMMA TypeInit == Init => TypeOK /\ BusyHasBatch
BY ZerosType, RelayAssumption DEF Init, TypeOK, BusyHasBatch, Busy, Steps

\* Every variable keeps its type in every reachable state.
THEOREM TypeCorrect == Spec => []TypeOK
<1>1. Spec => [](TypeOK /\ BusyHasBatch)
  BY TypeInit, TypeStep, PTL DEF Spec
<1> QED
  BY <1>1, PTL

-----------------------------------------------------------------------------
(***************************************************************************)
(* The relay implements the abstract outbox.  What the steps need: claimed *)
(* rows are stored ones, and the broker has the row whose publication was  *)
(* accepted or confirmed.                                                  *)
(***************************************************************************)

BatchStored == \A r \in Relay : batch[r] \subseteq stored

ConfirmedHeld ==
  \A r \in Relay : step[r] \in {"confirming", "marking"} => held[Current(r)] > 0

Backed == TypeOK /\ BusyHasBatch /\ BatchStored /\ ConfirmedHeld

\* The two outcomes of going on with the loop.
LEMMA ProceedShape ==
  ASSUME NEW r \in Relay, NEW rest \in SUBSET Record, NEW returned,
         Proceed(r, rest, returned)
  PROVE  /\ batch' = [batch EXCEPT ![r] = rest]
         /\ \/ /\ rest = {}
               /\ step' = [step EXCEPT ![r] = "idle"]
               /\ seen' = [seen EXCEPT ![r] = Zeros]
               /\ tries' = tries
            \/ /\ rest # {}
               /\ First(rest) \in rest
               /\ \E s \in {"sending", "failing", "dying"} :
                    step' = [step EXCEPT ![r] = s]
               /\ seen' = [seen EXCEPT ![r] = returned]
               /\ tries' = [tries EXCEPT ![First(rest)] = @ + 1]
<1>1. CASE rest = {}
  BY <1>1 DEF Proceed, EndTick
<1>2. CASE rest # {}
  BY <1>2, FirstOfRows DEF Proceed, Publish, FailStep
<1> QED
  BY <1>1, <1>2

\* A step that gives no relay a row to confirm, and takes no row or copy back,
\* keeps Backed.
LEMMA BackedKept ==
  ASSUME Backed, TypeOK', BusyHasBatch',
         stored \subseteq stored',
         \A i \in Record : held'[i] >= held[i],
         \A r \in Relay :
           \/ /\ batch'[r] \subseteq stored'
              /\ step'[r] \notin {"confirming", "marking"}
           \/ /\ batch'[r] = batch[r]
              /\ step'[r] = step[r]
  PROVE  Backed'
<1>1. BatchStored'
  BY DEF Backed, BatchStored
<1>2. ASSUME NEW r \in Relay, step'[r] \in {"confirming", "marking"}
      PROVE  held'[Current(r)'] > 0
  <2>1. batch'[r] = batch[r] /\ step'[r] = step[r]
    BY <1>2
  <2>2. Current(r)' = Current(r)
    BY <2>1 DEF Current
  <2>3. Current(r) \in Record /\ held[Current(r)] > 0
    BY <1>2, <2>1, CurrentRow DEF Backed, ConfirmedHeld, Busy
  <2> QED
    BY <2>2, <2>3 DEF Backed, TypeOK
<1> QED
  BY <1>1, <1>2 DEF Backed, ConfirmedHeld

LEMMA BackedStep == Backed /\ [Next]_vars => Backed'
<1> SUFFICES ASSUME Backed, [Next]_vars
             PROVE  Backed'
  OBVIOUS
<1> USE DEF table, process, client, history
<1>0. TypeOK /\ BusyHasBatch /\ TypeOK' /\ BusyHasBatch'
  BY TypeStep DEF Backed
<1>1. CASE UNCHANGED vars
  BY <1>0, <1>1 DEF vars, Backed, BatchStored, ConfirmedHeld, Current
<1>2. ASSUME NEW r \in Relay, NEW rest \in SUBSET stored, NEW returned,
             Proceed(r, rest, returned), UNCHANGED <<stored, held>>
      PROVE  Backed'
  <2>1. rest \in SUBSET Record
    BY <1>0, <1>2 DEF TypeOK
  <2>2. /\ batch' = [batch EXCEPT ![r] = rest]
        /\ \E s \in {"idle", "sending", "failing", "dying"} :
             step' = [step EXCEPT ![r] = s]
    BY <1>2, <2>1, ProceedShape
  <2> QED
    BY <1>0, <1>2, <2>2, BackedKept DEF TypeOK
<1>3. ASSUME NEW r \in Relay, Loop(r)
      PROVE  Backed'
  <2>1. CASE Tick(r)
    BY <1>0, <2>1, BackedKept DEF Tick, TypeOK, Backed, BatchStored
  <2>2. CASE Claim(r)
    <3>1. Oldest(Pending, BatchSize) \in SUBSET stored
      BY OldestRows DEF Pending
    <3> QED
      BY <1>2, <2>2, <3>1 DEF Claim
  <2>3. CASE MarkPublished(r) \/ MarkFailed(r) \/ MarkDead(r)
    <3>1. batch[r] \ {Current(r)} \in SUBSET stored
      BY DEF Backed, BatchStored
    <3> QED
      BY <1>2, <2>3, <3>1 DEF MarkPublished, MarkFailed, MarkDead
  <2> QED
    BY <1>3, <2>1, <2>2, <2>3 DEF Loop
<1>4. ASSUME NEW r \in Relay, Channel(r)
      PROVE  Backed'
  <2>1. CASE BrokerAccepts(r)
    <3> DEFINE i == Current(r)
    <3>1. /\ i \in Record
          /\ held' = [held EXCEPT ![i] = @ + 1]
          /\ step' = [step EXCEPT ![r] = "confirming"]
          /\ UNCHANGED <<stored, batch>>
      BY <1>0, <2>1, CurrentRow DEF BrokerAccepts, Busy
    <3>2. \A q \in Relay : Current(q)' = Current(q)
      BY <3>1 DEF Current
    <3> HIDE DEF i
    <3>3. /\ held'[i] > 0
          /\ \A j \in Record : held'[j] >= held[j]
      BY <1>0, <3>1 DEF TypeOK
    <3>4. ASSUME NEW q \in Relay, step'[q] \in {"confirming", "marking"}
          PROVE  held'[Current(q)'] > 0
      <4>1. CASE q = r
        BY <3>2, <3>3, <4>1 DEF i
      <4>2. CASE q # r
        <5>1. step[q] \in {"confirming", "marking"}
          BY <1>0, <3>1, <3>4, <4>2 DEF TypeOK
        <5>2. Current(q) \in Record /\ held[Current(q)] > 0
          BY <1>0, <5>1, CurrentRow DEF Backed, ConfirmedHeld, Busy
        <5> QED
          BY <1>0, <3>2, <3>3, <5>2 DEF TypeOK
      <4> QED
        BY <4>1, <4>2
    <3> QED
      BY <1>0, <3>1, <3>4 DEF Backed, BatchStored, ConfirmedHeld
  <2>2. CASE BrokerConfirms(r)
    <3>1. \A q \in Relay : Current(q)' = Current(q)
      BY <2>2 DEF BrokerConfirms, Current
    <3> QED
      BY <1>0, <2>2, <3>1
      DEF BrokerConfirms, TypeOK, Backed, BatchStored, ConfirmedHeld
  <2>3. CASE BrokerRejects(r)
    BY <1>0, <2>3, BackedKept DEF BrokerRejects, FailStep, TypeOK, Backed, BatchStored
  <2>4. CASE Reconnect(r)
    BY <1>0, <2>4, BackedKept DEF Reconnect, TypeOK
  <2> QED
    BY <1>4, <2>1, <2>2, <2>3, <2>4 DEF Channel
<1>5. ASSUME NEW r \in Relay, GoDown(r)
      PROVE  Backed'
  BY <1>0, <1>5, BackedKept DEF GoDown, TypeOK
<1>6. ASSUME NEW r \in Relay, Shutdown(r)
      PROVE  Backed'
  <2>1. CASE Stop(r)
    BY <1>0, <2>1, BackedKept DEF Stop, TypeOK
  <2>2. CASE Close(r)
    BY <1>0, <2>2, BackedKept DEF Close, FailStep, TypeOK, Backed, BatchStored
  <2>3. CASE Exit(r)
    BY <1>5, <2>3 DEF Exit
  <2> QED
    BY <1>6, <2>1, <2>2, <2>3 DEF Shutdown
<1>7. ASSUME NEW r \in Relay, Failure(r)
      PROVE  Backed'
  <2>1. CASE ClaimFails(r)
    BY <1>0, <2>1, BackedKept DEF ClaimFails, EndTick, TypeOK
  <2>2. CASE MarkPublishedThrows(r)
    BY <1>0, <2>2, BackedKept
    DEF MarkPublishedThrows, FailStep, TypeOK, Backed, BatchStored
  <2>3. CASE MarkThrows(r)
    BY <1>0, <2>3, BackedKept DEF MarkThrows, EndTick, TypeOK
  <2>4. CASE Disconnect(r)
    <3>1. \A q \in Relay :
            \/ step'[q] = step[q]
            \/ step'[q] = "sending"
      BY <1>0, <2>4 DEF Disconnect, TypeOK
    <3> QED
      BY <1>0, <2>4, <3>1, BackedKept DEF Disconnect, TypeOK, Backed, BatchStored
  <2>5. CASE Crash(r)
    BY <1>5, <2>5 DEF Crash
  <2>6. CASE Terminate(r)
    BY <1>0, <2>6, BackedKept DEF Terminate, TypeOK
  <2> QED
    BY <1>7, <2>1, <2>2, <2>3, <2>4, <2>5, <2>6 DEF Failure
<1>8. ASSUME NEW r \in Relay, Start(r)
      PROVE  Backed'
  BY <1>0, <1>8, BackedKept DEF Start, TypeOK
<1>9. ASSUME NEW r \in Relay, NEW i \in Record, Commit(r, i) \/ Wake(r, i)
      PROVE  Backed'
  BY <1>0, <1>9, BackedKept DEF Commit, Wake, TypeOK
<1> QED
  BY <1>1, <1>3, <1>4, <1>6, <1>7, <1>8, <1>9 DEF Next

LEMMA BackedInit == Init => Backed
BY TypeInit DEF Init, Backed, BatchStored, ConfirmedHeld

\* Each step of the relay is one of the abstract outbox, or changes nothing
\* the abstract outbox knows of.
LEMMA AbstractStep == Backed /\ [Next]_vars => [Abstract!Next]_Abstract!vars
<1> SUFFICES ASSUME Backed, [Next]_vars
             PROVE  Abstract!Next \/ UNCHANGED <<stored, held, published, dead>>
  BY DEF Abstract!vars
<1> USE DEF table, process, client, history
<1>1. CASE UNCHANGED vars
  BY <1>1 DEF vars
<1>2. ASSUME NEW r \in Relay, Busy(r)
      PROVE  Current(r) \in Record /\ Current(r) \in stored
  BY <1>2, CurrentRow DEF Backed, BatchStored
<1>3. ASSUME NEW r \in Relay, MarkPublished(r) \/ MarkPublishedThrows(r)
      PROVE  Abstract!Next \/ UNCHANGED <<stored, held, published, dead>>
  <2>1. Current(r) \in Record /\ held[Current(r)] > 0
    BY <1>2, <1>3
    DEF MarkPublished, MarkPublishedThrows, Busy, Backed, ConfirmedHeld
  <2> QED
    BY <1>3, <2>1
    DEF MarkPublished, MarkPublishedThrows, Abstract!Next, Abstract!MarkPublished
<1>4. ASSUME NEW r \in Relay, MarkDead(r) \/ MarkThrows(r)
      PROVE  Abstract!Next \/ UNCHANGED <<stored, held, published, dead>>
  <2>1. Current(r) \in Record /\ Current(r) \in stored
    BY <1>2, <1>4 DEF MarkDead, MarkThrows, Busy
  <2> QED
    BY <1>4, <2>1 DEF MarkDead, MarkThrows, Abstract!Next, Abstract!GiveUp
<1>5. ASSUME NEW r \in Relay, BrokerAccepts(r)
      PROVE  Abstract!Next
  <2>1. Current(r) \in Record /\ Current(r) \in stored
    BY <1>2, <1>5 DEF BrokerAccepts, Busy
  <2> QED
    BY <1>5, <2>1 DEF BrokerAccepts, Abstract!Next, Abstract!Deliver
<1>6. ASSUME NEW r \in Relay,
             \/ Tick(r) \/ Claim(r) \/ MarkFailed(r)
             \/ BrokerConfirms(r) \/ BrokerRejects(r) \/ Reconnect(r)
             \/ Shutdown(r) \/ Start(r)
             \/ ClaimFails(r) \/ Disconnect(r) \/ Crash(r) \/ Terminate(r)
      PROVE  UNCHANGED <<stored, held, published, dead>>
  BY <1>6
  DEF Tick, Claim, MarkFailed, BrokerConfirms, BrokerRejects, Reconnect,
      Shutdown, Stop, Close, Exit, GoDown, Start,
      ClaimFails, Disconnect, Crash, Terminate
<1>7. ASSUME NEW r \in Relay, NEW i \in Record, Commit(r, i) \/ Wake(r, i)
      PROVE  Abstract!Next \/ UNCHANGED <<stored, held, published, dead>>
  BY <1>7 DEF Commit, Wake, Abstract!Next, Abstract!Store
<1> QED
  BY <1>1, <1>3, <1>4, <1>5, <1>6, <1>7 DEF Next, Loop, Channel, Failure

\* The relay implements the abstract outbox: a row is marked published only
\* when the broker has accepted it, nothing is published that no transaction
\* stored, and no mark is taken back, however the relays, their crashes, lost
\* links, failed queries and shutdowns interleave.
THEOREM RelayImplementsOutbox == Spec => ImplementsOutbox
<1>1. Init => Abstract!Init
  BY DEF Init, Zeros, Abstract!Init
<1> QED
  BY <1>1, BackedInit, BackedStep, AbstractStep, PTL
  DEF Spec, ImplementsOutbox, Abstract!Spec

-----------------------------------------------------------------------------
(***************************************************************************)
(* The polling loop: one timer or one tick, and no wake-up forgotten.      *)
(***************************************************************************)

DownIsReset ==
  \A r \in Relay :
    ~Alive(r) => step[r] = "idle" /\ ~stopped[r] /\ owed[r] = {} /\ woken[r] = {}

LoopInv == OneLoop /\ DownIsReset /\ WakeNotLost

\* A step of a running tick of r that goes on or ends, and forgets no wake-up.
LEMMA LoopKept ==
  ASSUME TypeOK, LoopInv, NEW r \in Relay, Running(r),
         NEW rest \in SUBSET Record, NEW returned, Proceed(r, rest, returned),
         UNCHANGED <<life, stopped, wakeRequested, owed>>,
         \/ woken' = [woken EXCEPT ![r] = {}]
         \/ step[r] # "claiming" /\ woken' = woken
  PROVE  LoopInv'
<1> DEFINE delay == IF wakeRequested[r] THEN "zero" ELSE "poll"
<1>1. CASE /\ step' = [step EXCEPT ![r] = "idle"]
           /\ timer' = IF stopped[r] THEN timer ELSE [timer EXCEPT ![r] = delay]
  <2>1. OneLoop'
    BY <1>1 DEF TypeOK, LoopInv, OneLoop, DownIsReset, Alive, Running
  <2>2. DownIsReset'
    BY <1>1 DEF TypeOK, LoopInv, DownIsReset, Alive, Running
  <2>3. WakeNotLost'
    BY <1>1 DEF TypeOK, LoopInv, OneLoop, DownIsReset, WakeNotLost, Alive, Running
  <2> QED
    BY <2>1, <2>2, <2>3 DEF LoopInv
<1>2. CASE /\ \E s \in {"sending", "failing", "dying"} : step' = [step EXCEPT ![r] = s]
           /\ timer' = timer
  <2>1. OneLoop'
    BY <1>2 DEF TypeOK, LoopInv, OneLoop, DownIsReset, Alive, Running
  <2>2. DownIsReset'
    BY <1>2 DEF TypeOK, LoopInv, DownIsReset, Alive, Running
  <2>3. WakeNotLost'
    BY <1>2 DEF TypeOK, LoopInv, OneLoop, DownIsReset, WakeNotLost, Alive, Running
  <2> QED
    BY <2>1, <2>2, <2>3 DEF LoopInv
<1> QED
  BY <1>1, <1>2, ProceedShape DEF Proceed, EndTick, Publish, Arm

LEMMA LoopStep == TypeOK /\ LoopInv /\ [Next]_vars => LoopInv'
<1> SUFFICES ASSUME TypeOK, LoopInv, [Next]_vars
             PROVE  LoopInv'
  OBVIOUS
<1> USE DEF table, process, client, history
<1>1. CASE UNCHANGED vars
  BY <1>1 DEF vars, LoopInv, OneLoop, DownIsReset, WakeNotLost, Alive, Running
<1>2. ASSUME NEW r \in Relay, Loop(r)
      PROVE  LoopInv'
  <2>1. CASE Tick(r)
    <3>1. /\ Alive(r) /\ ~stopped[r] /\ ~Running(r)
          /\ step' = [step EXCEPT ![r] = "claiming"]
          /\ timer' = [timer EXCEPT ![r] = "none"]
          /\ wakeRequested' = [wakeRequested EXCEPT ![r] = FALSE]
          /\ UNCHANGED <<life, stopped, owed, woken>>
      BY <2>1 DEF Tick, TypeOK, LoopInv, OneLoop
    <3> QED
      BY <3>1 DEF TypeOK, LoopInv, OneLoop, DownIsReset, WakeNotLost, Alive, Running
  <2>2. CASE Claim(r)
    <3>1. Oldest(Pending, BatchSize) \in SUBSET Record
      BY OldestRows DEF Pending, TypeOK
    <3> QED
      BY <2>2, <3>1, LoopKept DEF Claim, Running
  <2>3. CASE MarkPublished(r) \/ MarkFailed(r) \/ MarkDead(r)
    <3>1. batch[r] \ {Current(r)} \in SUBSET Record
      BY DEF TypeOK
    <3> QED
      BY <2>3, <3>1, LoopKept DEF MarkPublished, MarkFailed, MarkDead, Running
  <2> QED
    BY <1>2, <2>1, <2>2, <2>3 DEF Loop
<1>3. ASSUME NEW r \in Relay, Running(r), step[r] # "claiming",
             NEW s \in Steps \ {"idle"},
             step' = [step EXCEPT ![r] = s],
             UNCHANGED <<life, timer, stopped, wakeRequested, owed, woken>>
      PROVE  LoopInv'
  BY <1>3 DEF TypeOK, LoopInv, OneLoop, DownIsReset, WakeNotLost, Alive, Running
<1>4. ASSUME UNCHANGED <<life, timer, stopped, wakeRequested, owed, woken, step>>
      PROVE  LoopInv'
  BY <1>4 DEF LoopInv, OneLoop, DownIsReset, WakeNotLost, Alive, Running
<1>5. ASSUME NEW r \in Relay, Channel(r)
      PROVE  LoopInv'
  <2>1. CASE BrokerAccepts(r) \/ BrokerConfirms(r) \/ BrokerRejects(r)
    BY <1>3, <2>1
    DEF BrokerAccepts, BrokerConfirms, BrokerRejects, FailStep, Running, Steps
  <2>2. CASE Reconnect(r)
    BY <1>4, <2>2 DEF Reconnect
  <2> QED
    BY <1>5, <2>1, <2>2 DEF Channel
<1>6. ASSUME NEW r \in Relay, GoDown(r)
      PROVE  LoopInv'
  BY <1>6 DEF GoDown, TypeOK, LoopInv, OneLoop, DownIsReset, WakeNotLost, Alive, Running
<1>7. ASSUME NEW r \in Relay, Shutdown(r)
      PROVE  LoopInv'
  <2>1. CASE Stop(r)
    BY <2>1
    DEF Stop, TypeOK, LoopInv, OneLoop, DownIsReset, WakeNotLost, Alive, Running
  <2>2. CASE Close(r)
    <3>1. CASE step[r] \in {"sending", "confirming"}
      BY <1>3, <2>2, <3>1 DEF Close, FailStep, Running, Steps
    <3>2. CASE step[r] \notin {"sending", "confirming"}
      BY <1>4, <2>2, <3>2 DEF Close, TypeOK
    <3> QED
      BY <3>1, <3>2
  <2>3. CASE Exit(r)
    BY <1>6, <2>3 DEF Exit
  <2> QED
    BY <1>7, <2>1, <2>2, <2>3 DEF Shutdown
<1>8. ASSUME NEW r \in Relay, Failure(r)
      PROVE  LoopInv'
  <2>1. CASE ClaimFails(r)
    <3>1. Proceed(r, {}, seen[r])
      BY <2>1 DEF ClaimFails, Proceed
    <3> QED
      BY <2>1, <3>1, LoopKept DEF ClaimFails, Running
  <2>2. CASE MarkPublishedThrows(r)
    BY <1>3, <2>2 DEF MarkPublishedThrows, FailStep, Running, Steps
  <2>3. CASE MarkThrows(r)
    <3>1. Proceed(r, {}, seen[r])
      BY <2>3 DEF MarkThrows, Proceed
    <3> QED
      BY <2>3, <3>1, LoopKept DEF MarkThrows, Running
  <2>4. CASE Disconnect(r)
    <3>1. CASE step[r] = "confirming"
      BY <1>3, <2>4, <3>1 DEF Disconnect, Running, Steps
    <3>2. CASE step[r] # "confirming"
      BY <1>4, <2>4, <3>2 DEF Disconnect, TypeOK
    <3> QED
      BY <3>1, <3>2
  <2>5. CASE Crash(r)
    BY <1>6, <2>5 DEF Crash
  <2>6. CASE Terminate(r)
    BY <2>6
    DEF Terminate, TypeOK, LoopInv, OneLoop, DownIsReset, WakeNotLost, Alive, Running
  <2> QED
    BY <1>8, <2>1, <2>2, <2>3, <2>4, <2>5, <2>6 DEF Failure
<1>9. ASSUME NEW r \in Relay, Start(r)
      PROVE  LoopInv'
  BY <1>9
  DEF Start, TypeOK, LoopInv, OneLoop, DownIsReset, WakeNotLost, Alive, Running
<1>10. ASSUME NEW r \in Relay, NEW i \in Record, Commit(r, i)
       PROVE  LoopInv'
  BY <1>10
  DEF Commit, TypeOK, LoopInv, OneLoop, DownIsReset, WakeNotLost, Alive, Running
<1>11. ASSUME NEW r \in Relay, NEW i \in Record, Wake(r, i)
       PROVE  LoopInv'
  <2>1. Alive(r)
    BY <1>11 DEF Wake, LoopInv, DownIsReset
  <2>2. CASE Running(r)
    BY <1>11, <2>1, <2>2
    DEF Wake, TypeOK, LoopInv, OneLoop, DownIsReset, WakeNotLost, Alive, Running
  <2>3. CASE ~Running(r)
    BY <1>11, <2>1, <2>3
    DEF Wake, Arm, TypeOK, LoopInv, OneLoop, DownIsReset, WakeNotLost, Alive, Running
  <2> QED
    BY <2>2, <2>3
<1> QED
  BY <1>1, <1>2, <1>5, <1>7, <1>8, <1>9, <1>10, <1>11 DEF Next

LEMMA LoopAlways == Spec => []LoopInv
<1>1. Init => LoopInv
  BY DEF Init, LoopInv, OneLoop, DownIsReset, WakeNotLost, Alive, Running
<1> QED
  BY <1>1, TypeCorrect, LoopStep, PTL DEF Spec

\* Polling neither dies nor doubles, whatever fails.
THEOREM LoopIsOne == Spec => []OneLoop
BY LoopAlways, PTL DEF LoopInv

\* A wake-up that finds a tick running is served by the next one at once.
THEOREM NoWakeLost == Spec => []WakeNotLost
BY LoopAlways, PTL DEF LoopInv

-----------------------------------------------------------------------------
(***************************************************************************)
(* Order.  A claim takes a row together with every pending row that is     *)
(* older, and the loop comes to it last; a row that is no longer pending   *)
(* was tried.                                                              *)
(***************************************************************************)

SettledTried == \A i \in published \cup dead : tries[i] > 0

CurrentTried == \A r \in Relay : Busy(r) => tries[Current(r)] > 0

Fresh ==
  \A j \in Record : before[j] \subseteq stored /\ (j \notin stored => held[j] = 0)

OlderFirst ==
  \A r \in Relay : \A j \in batch[r] : \A i \in before[j] :
    i < j => i \in batch[r] \/ tries[i] > 0

Ordered ==
  SettledTried /\ CurrentTried /\ Fresh /\ OlderFirst /\ OvertakenOnlyAfterTry

\* Steps that claim no row and start none.
LEMMA OrderStill ==
  ASSUME Backed, Ordered,
         UNCHANGED <<stored, before, held, tries>>,
         SettledTried',
         \A r \in Relay :
           \/ batch'[r] = {} /\ step'[r] = "idle"
           \/ batch'[r] = batch[r] /\ step'[r] \in {"idle", "claiming"}
           \/ batch'[r] = batch[r] /\ step[r] \notin {"idle", "claiming"}
           \/ batch'[r] = batch[r] /\ step'[r] = step[r]
  PROVE  Ordered'
<1>1. Fresh' /\ OvertakenOnlyAfterTry'
  BY DEF Ordered, Fresh, OvertakenOnlyAfterTry
<1>2. ASSUME NEW r \in Relay, Busy(r)'
      PROVE  tries'[Current(r)'] > 0
  <2>1. batch'[r] = batch[r] /\ Busy(r)
    BY <1>2 DEF Busy
  <2> QED
    BY <2>1 DEF Current, Ordered, CurrentTried
<1>3. OlderFirst'
  BY DEF Ordered, OlderFirst
<1> QED
  BY <1>1, <1>2, <1>3 DEF Ordered, CurrentTried

LEMMA SettledStill ==
  ASSUME Ordered, UNCHANGED <<published, dead, tries>>
  PROVE  SettledTried'
BY DEF Ordered, SettledTried

LEMMA SettlesCurrent ==
  ASSUME Ordered, UNCHANGED tries, NEW r \in Relay, Busy(r),
         published' \cup dead' \subseteq published \cup dead \cup {Current(r)}
  PROVE  SettledTried'
BY DEF Ordered, SettledTried, CurrentTried

\* Going on with a rest that holds, of every row in it, the older rows that
\* were never tried.
LEMMA OrderProceed ==
  ASSUME Backed, Ordered, NEW r \in Relay,
         NEW rest \in SUBSET Record, NEW returned, Proceed(r, rest, returned),
         \A j \in rest : \A i \in before[j] : i < j => i \in rest \/ tries[i] > 0,
         UNCHANGED <<stored, before, held>>,
         published' \cup dead' \subseteq published \cup dead \cup {Current(r)},
         Busy(r) \/ UNCHANGED <<published, dead>>
  PROVE  Ordered'
<1>1. tries \in [Record -> Nat] /\ batch \in [Relay -> SUBSET Record]
  BY DEF Backed, TypeOK
<1>2. /\ batch' = [batch EXCEPT ![r] = rest]
      /\ \A q \in Relay \ {r} : step'[q] = step[q]
      /\ \A i \in Record : tries'[i] \in Nat /\ tries'[i] >= tries[i]
      /\ Busy(r)' => First(rest) \in Record /\ tries'[First(rest)] > 0
  <2>1. CASE rest = {}
    <3>1. /\ batch' = [batch EXCEPT ![r] = rest]
          /\ tries' = tries
          /\ step' = [step EXCEPT ![r] = "idle"]
      BY <2>1, ProceedShape
    <3>2. step' \in [Relay -> Steps] /\ step'[r] = "idle"
          /\ \A q \in Relay \ {r} : step'[q] = step[q]
      BY <3>1 DEF Backed, TypeOK, Steps
    <3>3. ~Busy(r)'
      BY <3>2 DEF Busy
    <3> QED
      BY <1>1, <3>1, <3>2, <3>3
  <2>2. CASE rest # {}
    <3> DEFINE f == First(rest)
    <3>1. /\ f \in Record
          /\ batch' = [batch EXCEPT ![r] = rest]
          /\ tries' = [tries EXCEPT ![f] = @ + 1]
          /\ \E s \in {"sending", "failing", "dying"} : step' = [step EXCEPT ![r] = s]
      BY <2>2, ProceedShape
    <3> HIDE DEF f
    <3>2. \A q \in Relay \ {r} : step'[q] = step[q]
      BY <3>1 DEF Backed, TypeOK
    <3>3. \A i \in Record : tries'[i] \in Nat /\ tries'[i] >= tries[i]
      BY <1>1, <3>1
    <3>4. tries'[f] > 0
      BY <1>1, <3>1
    <3> QED
      BY <3>1, <3>2, <3>3, <3>4 DEF f
  <2> QED
    BY <2>1, <2>2
<1>3. \A i \in Record : tries[i] > 0 => tries'[i] > 0
  BY <1>1, <1>2
<1>4. SettledTried'
  <2> SUFFICES ASSUME NEW i \in published' \cup dead'
               PROVE  tries'[i] > 0
    BY DEF SettledTried
  <2>1. i \in Record /\ tries[i] > 0
    BY CurrentRow DEF Backed, TypeOK, Ordered, SettledTried, CurrentTried
  <2> QED
    BY <1>3, <2>1
<1>5. ASSUME NEW q \in Relay, Busy(q)'
      PROVE  tries'[Current(q)'] > 0
  <2>1. CASE q = r
    <3>1. Current(q)' = First(rest)
      BY <1>1, <1>2, <2>1 DEF Current
    <3> QED
      BY <1>2, <1>5, <2>1, <3>1
  <2>2. CASE q # r
    <3>1. Current(q)' = Current(q) /\ Busy(q)
      BY <1>1, <1>2, <1>5, <2>2 DEF Current, Busy
    <3>2. Current(q) \in Record /\ tries[Current(q)] > 0
      BY <3>1, CurrentRow DEF Backed, Ordered, CurrentTried
    <3> QED
      BY <1>3, <3>1, <3>2
  <2> QED
    BY <2>1, <2>2
<1>6. ASSUME NEW q \in Relay, NEW j \in batch'[q], NEW i \in before'[j], i < j
      PROVE  i \in batch'[q] \/ tries'[i] > 0
  <2>1. i \in Record
    BY <1>1, <1>2, <1>6 DEF Backed, TypeOK
  <2>2. CASE q = r
    BY <1>1, <1>2, <1>3, <1>6, <2>1, <2>2
  <2>3. CASE q # r
    BY <1>1, <1>2, <1>3, <1>6, <2>1, <2>3 DEF Ordered, OlderFirst
  <2> QED
    BY <2>2, <2>3
<1>7. Fresh' /\ OvertakenOnlyAfterTry'
  BY <1>3 DEF Ordered, Fresh, OvertakenOnlyAfterTry
<1> QED
  BY <1>4, <1>5, <1>6, <1>7 DEF Ordered, CurrentTried, OlderFirst

\* A claim is closed under older pending rows.
LEMMA OldestClosed ==
  ASSUME NEW S \in SUBSET Record, NEW j \in Oldest(S, BatchSize),
         NEW i \in S, i < j
  PROVE  i \in Oldest(S, BatchSize)
<1> DEFINE Below(k) == {l \in S : l < k}
<1>1. S \subseteq Nat /\ IsFiniteSet(S)
  BY RelayAssumption, FS_Subset
<1>2. j \in S
  BY DEF Oldest
<1>3. Below(i) \subseteq Below(j)
  <2> SUFFICES ASSUME NEW l \in S, l < i
               PROVE  l < j
    BY DEF Below
  <2> QED
    BY <1>1, <1>2
<1>4. IsFiniteSet(Below(j))
  BY <1>1, FS_Subset
<1>5. /\ Cardinality(Below(i)) <= Cardinality(Below(j))
      /\ Cardinality(Below(i)) \in Nat /\ Cardinality(Below(j)) \in Nat
  BY <1>3, <1>4, FS_Subset, FS_CardinalityType
<1>6. Cardinality(Below(j)) < BatchSize
  BY DEF Oldest
<1> QED
  BY <1>5, <1>6, RelayAssumption DEF Oldest

LEMMA OrderStep == Backed /\ Ordered /\ [Next]_vars => Ordered'
<1> SUFFICES ASSUME Backed, Ordered, [Next]_vars
             PROVE  Ordered'
  OBVIOUS
<1> USE DEF table, process, client, history
<1>0. TypeOK
  BY DEF Backed
<1>1. CASE UNCHANGED vars
  BY <1>1, OrderStill, SettledStill DEF vars
<1>2. ASSUME NEW r \in Relay, Loop(r)
      PROVE  Ordered'
  <2>1. CASE Tick(r)
    <3>1. \A q \in Relay : step'[q] = step[q] \/ step'[q] = "claiming"
      BY <1>0, <2>1 DEF Tick, TypeOK
    <3>2. UNCHANGED <<stored, published, dead, before, held, tries, batch>>
      BY <2>1 DEF Tick
    <3> QED
      BY <3>1, <3>2, OrderStill, SettledStill
  <2>2. CASE Claim(r)
    <3> DEFINE claimed == Oldest(Pending, BatchSize)
    <3>1. claimed \in SUBSET Pending /\ Pending \in SUBSET Record
      BY <1>0, OldestRows DEF Pending, TypeOK
    <3>2. ASSUME NEW j \in claimed, NEW i \in before[j], i < j
          PROVE  i \in claimed \/ tries[i] > 0
      <4>1. i \in stored
        BY <3>1, <3>2 DEF Ordered, Fresh
      <4>2. CASE i \in Pending
        BY <3>1, <3>2, <4>2, OldestClosed
      <4>3. CASE i \notin Pending
        BY <4>1, <4>3 DEF Pending, Ordered, SettledTried
      <4> QED
        BY <4>2, <4>3
    <3>3. PICK returned : Proceed(r, claimed, returned)
      BY <2>2 DEF Claim
    <3>4. UNCHANGED <<stored, published, dead, before, held>>
      BY <2>2 DEF Claim
    <3> HIDE DEF claimed
    <3>5. claimed \in SUBSET Record
      BY <3>1
    <3> QED
      BY <3>2, <3>3, <3>4, <3>5, OrderProceed
  <2>3. CASE MarkPublished(r) \/ MarkFailed(r) \/ MarkDead(r)
    <3> DEFINE rest == batch[r] \ {Current(r)}
    <3>1. Busy(r) /\ tries[Current(r)] > 0
      BY <2>3 DEF MarkPublished, MarkFailed, MarkDead, Busy, Ordered, CurrentTried
    <3>2. rest \in SUBSET Record
      BY <1>0 DEF TypeOK
    <3>3. \A j \in rest : \A i \in before[j] : i < j => i \in rest \/ tries[i] > 0
      BY <3>1 DEF Ordered, OlderFirst
    <3>4. Proceed(r, rest, seen[r])
      BY <2>3 DEF MarkPublished, MarkFailed, MarkDead
    <3>5. published' \cup dead' \subseteq published \cup dead \cup {Current(r)}
      BY <2>3 DEF MarkPublished, MarkFailed, MarkDead
    <3>6. UNCHANGED <<stored, before, held>>
      BY <2>3 DEF MarkPublished, MarkFailed, MarkDead
    <3> HIDE DEF rest
    <3> QED
      BY <3>1, <3>2, <3>3, <3>4, <3>5, <3>6, OrderProceed
  <2> QED
    BY <1>2, <2>1, <2>2, <2>3 DEF Loop
<1>3. ASSUME NEW r \in Relay, BrokerAccepts(r)
      PROVE  Ordered'
  <2> DEFINE j == Current(r)
  <2>1. /\ j \in Record /\ j \in batch[r] /\ j \in stored /\ tries[j] > 0
        /\ \A i \in batch[r] : j <= i
    BY <1>0, <1>3, CurrentRow, FirstOfRows
    DEF BrokerAccepts, Busy, Backed, BusyHasBatch, BatchStored, Ordered, CurrentTried,
        TypeOK, Current
  <2>2. /\ held' = [held EXCEPT ![j] = @ + 1]
        /\ step' = [step EXCEPT ![r] = "confirming"]
        /\ UNCHANGED <<stored, published, dead, batch, before, tries>>
    BY <1>3 DEF BrokerAccepts
  <2>3. \A q \in Relay : Current(q)' = Current(q)
    BY <2>2 DEF Current
  <2> HIDE DEF j
  <2>4. SettledTried' /\ OlderFirst'
    BY <2>2 DEF Ordered, SettledTried, OlderFirst
  <2>5. ASSUME NEW q \in Relay, Busy(q)'
        PROVE  tries'[Current(q)'] > 0
    BY <1>0, <1>3, <2>2, <2>3, <2>5
    DEF BrokerAccepts, TypeOK, Busy, Ordered, CurrentTried
  <2>6. Fresh'
    BY <1>0, <2>1, <2>2 DEF TypeOK, Ordered, Fresh
  <2>7. ASSUME NEW i \in Record, NEW k \in Record,
               i < k, i \in before'[k], held'[k] > 0
        PROVE  tries'[i] > 0
    <3>1. CASE k = j
      <4>1. i \notin batch[r]
        BY <2>1, <2>7, <3>1, RelayAssumption
      <4> QED
        BY <2>1, <2>2, <2>7, <3>1, <4>1 DEF Ordered, OlderFirst
    <3>2. CASE k # j
      BY <1>0, <2>2, <2>7, <3>2 DEF TypeOK, Ordered, OvertakenOnlyAfterTry
    <3> QED
      BY <3>1, <3>2
  <2> QED
    BY <2>4, <2>5, <2>6, <2>7 DEF Ordered, CurrentTried, OvertakenOnlyAfterTry
<1>4. ASSUME NEW r \in Relay,
             \/ BrokerConfirms(r) \/ BrokerRejects(r) \/ Close(r)
             \/ MarkPublishedThrows(r) \/ Disconnect(r)
      PROVE  Ordered'
  <2>1. \A q \in Relay :
          step'[q] = step[q] \/ step[q] \notin {"idle", "claiming"}
    BY <1>0, <1>4
    DEF BrokerConfirms, BrokerRejects, Close, MarkPublishedThrows, Disconnect, TypeOK
  <2>2. UNCHANGED <<stored, before, held, tries, batch>>
    BY <1>4
    DEF BrokerConfirms, BrokerRejects, Close, MarkPublishedThrows, Disconnect
  <2>3. CASE MarkPublishedThrows(r)
    <3>1. Busy(r) /\ published' \cup dead' \subseteq published \cup dead \cup {Current(r)}
      BY <2>3 DEF MarkPublishedThrows, Busy
    <3> QED
      BY <2>1, <2>2, <3>1, OrderStill, SettlesCurrent
  <2>4. CASE ~MarkPublishedThrows(r)
    <3>1. UNCHANGED <<published, dead>>
      BY <1>4, <2>4 DEF BrokerConfirms, BrokerRejects, Close, Disconnect
    <3> QED
      BY <2>1, <2>2, <3>1, OrderStill, SettledStill
  <2> QED
    BY <2>3, <2>4
<1>5. ASSUME NEW r \in Relay, Reconnect(r) \/ Stop(r) \/ Terminate(r) \/ Start(r)
      PROVE  Ordered'
  <2>1. UNCHANGED <<stored, before, held, tries, batch, step, published, dead>>
    BY <1>5 DEF Reconnect, Stop, Terminate, Start
  <2> QED
    BY <2>1, OrderStill, SettledStill
<1>6. ASSUME NEW r \in Relay, ClaimFails(r) \/ MarkThrows(r) \/ GoDown(r)
      PROVE  Ordered'
  <2>1. /\ UNCHANGED <<stored, before, held, tries>>
        /\ step' = [step EXCEPT ![r] = "idle"]
        /\ batch' = [batch EXCEPT ![r] = {}]
    BY <1>6 DEF ClaimFails, MarkThrows, GoDown, EndTick
  <2>2. \A q \in Relay :
          \/ batch'[q] = {} /\ step'[q] = "idle"
          \/ batch'[q] = batch[q] /\ step'[q] = step[q]
    BY <1>0, <2>1 DEF TypeOK
  <2>3. CASE MarkThrows(r)
    <3>1. Busy(r) /\ published' \cup dead' \subseteq published \cup dead \cup {Current(r)}
      BY <2>3 DEF MarkThrows, Busy
    <3> QED
      BY <2>1, <2>2, <3>1, OrderStill, SettlesCurrent
  <2>4. CASE ~MarkThrows(r)
    <3>1. UNCHANGED <<published, dead>>
      BY <1>6, <2>4 DEF ClaimFails, GoDown
    <3> QED
      BY <2>1, <2>2, <3>1, OrderStill, SettledStill
  <2> QED
    BY <2>3, <2>4
<1>7. ASSUME NEW r \in Relay, NEW i \in Record, Wake(r, i)
      PROVE  Ordered'
  <2>1. UNCHANGED <<stored, before, held, tries, batch, step, published, dead>>
    BY <1>7 DEF Wake
  <2> QED
    BY <2>1, OrderStill, SettledStill
<1>8. ASSUME NEW r \in Relay, NEW i \in Record, Commit(r, i)
      PROVE  Ordered'
  <2>1. /\ i \notin stored /\ stored' = stored \cup {i}
        /\ before' = [before EXCEPT ![i] = stored]
        /\ UNCHANGED <<published, dead, held, step, batch, tries>>
    BY <1>8 DEF Commit
  <2>2. SettledTried'
    BY <2>1 DEF Ordered, SettledTried
  <2>3. CurrentTried'
    BY <2>1 DEF Ordered, CurrentTried, Busy, Current
  <2>4. Fresh' /\ OvertakenOnlyAfterTry'
    BY <1>0, <2>1 DEF TypeOK, Ordered, Fresh, OvertakenOnlyAfterTry
  <2>5. OlderFirst'
    BY <1>0, <2>1 DEF TypeOK, Backed, BatchStored, Ordered, OlderFirst
  <2> QED
    BY <2>2, <2>3, <2>4, <2>5 DEF Ordered
<1> QED
  BY <1>1, <1>2, <1>3, <1>4, <1>5, <1>6, <1>7, <1>8
  DEF Next, Channel, Shutdown, Failure, Exit, Crash

\* Events overtake one another only after a failed attempt, for any number of
\* relays over the table.
THEOREM OrderKeptUnlessTried == Spec => []OvertakenOnlyAfterTry
<1>1. Init => Ordered
  BY ZerosType
  DEF Init, Zeros, Ordered, SettledTried, CurrentTried, Fresh, OlderFirst,
      OvertakenOnlyAfterTry, Busy
<1>2. Ordered => OvertakenOnlyAfterTry
  BY DEF Ordered
<1> QED
  BY <1>1, <1>2, BackedInit, BackedStep, OrderStep, PTL DEF Spec
=============================================================================
