----------------------- MODULE OutboxRelayCounts_proofs -----------------------
(***************************************************************************)
(* What the outbox counts, for any number of relays over the table, rows   *)
(* and faults: the retry limit over PrismaOutboxStore, the store of        *)
(* order-service, which counts an attempt when it marks the row            *)
(* (OutboxRepository, the store of tracking-service, breaks it: run        *)
(* relay_dead_early); the calls of publishRecord against the attempts      *)
(* column of either store; and the copies in the broker against the faults *)
(* that explain them.                                                      *)
(***************************************************************************)
EXTENDS OutboxRelay_proofs

-----------------------------------------------------------------------------
\* The relays that have called publishRecord for row i and not counted it.
Trying(i) == {r \in Relay : Busy(r) /\ Current(r) = i}

\* What claimBatch returned are attempts that were made; the current row has
\* one more.
SeenTried ==
  \A r \in Relay :
    /\ \A i \in batch[r] : seen[r][i] <= tries[i]
    /\ Busy(r) => seen[r][Current(r)] < tries[Current(r)]

\* The column and the attempts under way never exceed the attempts made.  (A
\* published row may be counted twice: markPublished takes effect, its answer
\* is lost, and markFailed counts again.)
AttemptsTried ==
  \A i \in Record \ published : attempts[i] + Cardinality(Trying(i)) <= tries[i]

DyingLast ==
  \A r \in Relay : step[r] = "dying" => seen[r][Current(r)] + 1 >= MaxAttempts

Retry == SeenTried /\ AttemptsTried /\ DyingLast /\ DeadIsExhausted

One(p) == IF p THEN 1 ELSE 0

\* The count of a set of relays, with and without one of them.
LEMMA CountWithout ==
  ASSUME NEW S \in SUBSET Relay, NEW r \in Relay
  PROVE  /\ Cardinality(S \ {r}) \in Nat
         /\ Cardinality(S) = Cardinality(S \ {r}) + One(r \in S)
<1>1. IsFiniteSet(S) /\ IsFiniteSet(S \ {r})
  BY RelayAssumption, FS_Subset
<1>2. CASE r \in S
  <2>1. Cardinality(S \ {r}) = Cardinality(S) - 1
    BY <1>1, <1>2, FS_RemoveElement
  <2> QED
    BY <1>1, <1>2, <2>1, FS_CardinalityType DEF One
<1>3. CASE r \notin S
  <2>1. S \ {r} = S
    BY <1>3
  <2>2. Cardinality(S) \in Nat /\ One(r \in S) = 0
    BY <1>1, <1>3, FS_CardinalityType DEF One
  <2> QED
    BY <2>1, <2>2
<1> QED
  BY <1>2, <1>3

\* A step of r keeps AttemptsTried when, on every row that is not published,
\* what it adds to the column and to the attempts under way it adds to tries.
LEMMA AttemptsKept ==
  ASSUME TypeOK, TypeOK', AttemptsTried, NEW r \in Relay,
         published \subseteq published',
         \A q \in Relay \ {r} : step'[q] = step[q] /\ batch'[q] = batch[q],
         \A i \in Record \ published' :
           attempts'[i] + One(r \in Trying(i)') + tries[i]
             <= attempts[i] + One(r \in Trying(i)) + tries'[i]
  PROVE  AttemptsTried'
<1> SUFFICES ASSUME NEW i \in Record \ published'
             PROVE  attempts'[i] + Cardinality(Trying(i)') <= tries'[i]
  BY DEF AttemptsTried
<1> DEFINE n == Cardinality(Trying(i) \ {r})
<1>1. Trying(i)' \ {r} = Trying(i) \ {r}
  BY DEF Trying, Busy, Current
<1>2. /\ n \in Nat
      /\ Cardinality(Trying(i)) = n + One(r \in Trying(i))
  BY CountWithout DEF Trying
<1>3. Cardinality(Trying(i)') = n + One(r \in Trying(i)')
  <2>1. Trying(i)' \in SUBSET Relay
    BY DEF Trying
  <2> QED
    BY <1>1, <2>1, CountWithout
<1> HIDE DEF n
<1>4. attempts[i] + n + One(r \in Trying(i)) <= tries[i]
  <2>1. i \in Record \ published
    OBVIOUS
  <2>2. attempts[i] + Cardinality(Trying(i)) <= tries[i]
    BY <2>1 DEF AttemptsTried
  <2>3. attempts[i] \in Nat /\ One(r \in Trying(i)) \in Nat
    BY DEF TypeOK, One
  <2> QED
    BY <1>2, <2>2, <2>3
<1>5. /\ attempts[i] \in Nat /\ attempts'[i] \in Nat
      /\ tries[i] \in Nat /\ tries'[i] \in Nat
  BY DEF TypeOK
<1>6. One(r \in Trying(i)) \in Nat /\ One(r \in Trying(i)') \in Nat
  BY DEF One
<1> QED
  BY <1>2, <1>3, <1>4, <1>5, <1>6

-----------------------------------------------------------------------------
\* A step that ends the tick of r.
LEMMA RetryEnds ==
  ASSUME TypeOK, TypeOK', Retry, NEW r \in Relay,
         step' = [step EXCEPT ![r] = "idle"],
         batch' = [batch EXCEPT ![r] = {}],
         seen' = [seen EXCEPT ![r] = Zeros],
         tries' = tries,
         published \subseteq published',
         \A i \in dead' : tries[i] >= MaxAttempts,
         \A i \in Record \ published' :
           attempts'[i] <= attempts[i] + One(r \in Trying(i))
  PROVE  Retry'
<1>1. /\ step'[r] = "idle" /\ batch'[r] = {}
      /\ \A q \in Relay \ {r} :
           step'[q] = step[q] /\ batch'[q] = batch[q] /\ seen'[q] = seen[q]
  BY DEF TypeOK
<1>2. \A i : r \notin Trying(i)'
  BY <1>1 DEF Trying, Busy
<1>3. AttemptsTried'
  <2> SUFFICES ASSUME NEW i \in Record \ published'
               PROVE  attempts'[i] + One(r \in Trying(i)') + tries[i]
                        <= attempts[i] + One(r \in Trying(i)) + tries'[i]
    BY <1>1, AttemptsKept DEF Retry
  <2>1. One(r \in Trying(i)') = 0 /\ One(r \in Trying(i)) \in Nat
    BY <1>2 DEF One
  <2> QED
    BY <2>1 DEF TypeOK
<1>4. SeenTried'
  <2> SUFFICES ASSUME NEW q \in Relay
               PROVE  /\ \A i \in batch'[q] : seen'[q][i] <= tries'[i]
                      /\ Busy(q)' => seen'[q][Current(q)'] < tries'[Current(q)']
    BY DEF SeenTried
  <2>1. CASE q = r
    BY <1>1, <2>1 DEF Busy
  <2>2. CASE q # r
    <3>1. Current(q)' = Current(q) /\ (Busy(q)' <=> Busy(q))
      BY <1>1, <2>2 DEF Current, Busy
    <3> QED
      BY <1>1, <2>2, <3>1 DEF Retry, SeenTried
  <2> QED
    BY <2>1, <2>2
<1>5. DyingLast'
  <2> SUFFICES ASSUME NEW q \in Relay, step'[q] = "dying"
               PROVE  seen'[q][Current(q)'] + 1 >= MaxAttempts
    BY DEF DyingLast
  <2>1. q # r
    BY <1>1
  <2>2. Current(q)' = Current(q) /\ step[q] = "dying" /\ seen'[q] = seen[q]
    BY <1>1, <2>1 DEF Current
  <2> QED
    BY <2>2 DEF Retry, DyingLast
<1>6. DeadIsExhausted'
  BY DEF DeadIsExhausted
<1> QED
  BY <1>3, <1>4, <1>5, <1>6 DEF Retry

\* A step of the loop that goes on with rest.
LEMMA RetryProceed ==
  ASSUME TypeOK, BusyHasBatch, TypeOK', Retry, NEW r \in Relay,
         NEW rest \in SUBSET Record, NEW returned \in [Record -> Nat],
         Proceed(r, rest, returned),
         \A i \in rest : returned[i] <= tries[i],
         published \subseteq published',
         \A i \in dead' : tries[i] >= MaxAttempts,
         \A i \in Record \ published' :
           attempts'[i] <= attempts[i] + One(r \in Trying(i))
  PROVE  Retry'
<1>1. CASE rest = {}
  BY <1>1, ProceedShape, RetryEnds
<1>2. CASE rest # {}
  <2> DEFINE f == First(rest)
  <2>0. f \in rest /\ f \in Record
    BY <1>2, FirstOfRows
  <2>1. /\ f \in rest /\ f \in Record
        /\ batch' = [batch EXCEPT ![r] = rest]
        /\ seen' = [seen EXCEPT ![r] = returned]
        /\ tries' = [tries EXCEPT ![f] = @ + 1]
    BY <1>2, <2>0 DEF Proceed, Publish
  <2>2. step' = [step EXCEPT ![r] =
                   IF open[r] THEN "sending" ELSE FailStep(returned[f])]
    BY <1>2 DEF Proceed, Publish
  <2>3. Current(r)' = f
    BY <2>1 DEF Current, TypeOK
  <2> HIDE DEF f
  <2>4. /\ batch'[r] = rest /\ seen'[r] = returned
        /\ step'[r] = IF open[r] THEN "sending" ELSE FailStep(returned[f])
        /\ \A q \in Relay \ {r} :
             step'[q] = step[q] /\ batch'[q] = batch[q] /\ seen'[q] = seen[q]
    BY <2>1, <2>2 DEF TypeOK
  <2>5. step'[r] = "dying" => returned[f] + 1 >= MaxAttempts
    BY <2>4 DEF FailStep
  <2>6. /\ tries'[f] = tries[f] + 1
        /\ \A i \in Record \ {f} : tries'[i] = tries[i]
        /\ \A i \in Record : tries[i] \in Nat /\ tries'[i] \in Nat /\ tries[i] <= tries'[i]
    BY <2>1 DEF TypeOK
  <2>7. AttemptsTried'
    <3> SUFFICES ASSUME NEW i \in Record \ published'
                 PROVE  attempts'[i] + One(r \in Trying(i)') + tries[i]
                          <= attempts[i] + One(r \in Trying(i)) + tries'[i]
      BY <2>4, AttemptsKept DEF Retry
    <3>1. /\ One(r \in Trying(i)) \in Nat
          /\ attempts[i] \in Nat /\ attempts'[i] \in Nat
          /\ attempts'[i] <= attempts[i] + One(r \in Trying(i))
      BY DEF One, TypeOK
    <3>2. CASE i = f
      <4>1. One(r \in Trying(i)') \in {0, 1}
        BY DEF One
      <4> QED
        BY <2>6, <3>1, <3>2, <4>1
    <3>3. CASE i # f
      <4>1. One(r \in Trying(i)') = 0
        BY <2>3, <3>3 DEF One, Trying
      <4> QED
        BY <2>6, <3>1, <3>3, <4>1
    <3> QED
      BY <3>2, <3>3
  <2>8. SeenTried'
    <3> SUFFICES ASSUME NEW q \in Relay
                 PROVE  /\ \A i \in batch'[q] : seen'[q][i] <= tries'[i]
                        /\ Busy(q)' => seen'[q][Current(q)'] < tries'[Current(q)']
      BY DEF SeenTried
    <3>1. CASE q = r
      <4>1. \A i \in rest : returned[i] \in Nat /\ returned[i] <= tries'[i]
        BY <2>6
      <4>2. returned[f] < tries'[f]
        BY <2>1, <2>6
      <4> QED
        BY <2>3, <2>4, <3>1, <4>1, <4>2
    <3>2. CASE q # r
      <4>1. /\ Current(q)' = Current(q) /\ (Busy(q)' <=> Busy(q))
            /\ seen'[q] = seen[q] /\ batch'[q] = batch[q]
        BY <2>4, <3>2 DEF Current, Busy
      <4>2. /\ batch[q] \subseteq Record /\ seen[q] \in [Record -> Nat]
            /\ \A i \in batch[q] : seen[q][i] <= tries[i]
        BY DEF Retry, SeenTried, TypeOK
      <4>3. \A i \in batch[q] : seen[q][i] <= tries'[i]
        BY <2>6, <4>2
      <4>4. ASSUME Busy(q)
            PROVE  seen[q][Current(q)] < tries'[Current(q)]
        <5>1. batch[q] # {}
          BY <4>4 DEF BusyHasBatch
        <5>2. Current(q) \in Record
          BY <4>2, <5>1, FirstOfRows DEF Current
        <5>3. seen[q][Current(q)] < tries[Current(q)]
          BY <4>4 DEF Retry, SeenTried
        <5> QED
          BY <2>6, <4>2, <5>2, <5>3
      <4> QED
        BY <4>1, <4>3, <4>4
    <3> QED
      BY <3>1, <3>2
  <2>9. DyingLast'
    <3> SUFFICES ASSUME NEW q \in Relay, step'[q] = "dying"
                 PROVE  seen'[q][Current(q)'] + 1 >= MaxAttempts
      BY DEF DyingLast
    <3>1. CASE q = r
      BY <2>3, <2>4, <2>5, <3>1
    <3>2. CASE q # r
      <4>1. Current(q)' = Current(q) /\ step[q] = "dying" /\ seen'[q] = seen[q]
        BY <2>4, <3>2 DEF Current
      <4> QED
        BY <4>1 DEF Retry, DyingLast
    <3> QED
      BY <3>1, <3>2
  <2>10. DeadIsExhausted'
    <3> SUFFICES ASSUME NEW i \in dead'
                 PROVE  tries'[i] >= MaxAttempts
      BY DEF DeadIsExhausted
    <3>1. i \in Record /\ tries[i] >= MaxAttempts /\ MaxAttempts \in Nat
      BY RelayAssumption DEF TypeOK
    <3> QED
      BY <2>6, <3>1
  <2> QED
    BY <2>7, <2>8, <2>9, <2>10 DEF Retry
<1> QED
  BY <1>1, <1>2

\* A step of r that keeps its batch, and where it stops or starts no attempt.
LEMMA RetryStays ==
  ASSUME TypeOK, TypeOK', Retry, NEW r \in Relay,
         UNCHANGED <<batch, seen, tries, dead>>,
         published \subseteq published',
         \A q \in Relay \ {r} : step'[q] = step[q],
         Busy(r)' <=> Busy(r),
         step'[r] = "dying" =>
           step[r] = "dying" \/ seen[r][Current(r)] + 1 >= MaxAttempts,
         \A i \in Record \ published' : attempts'[i] = attempts[i]
  PROVE  Retry'
<1>1. \A q \in Relay : Current(q)' = Current(q) /\ (Busy(q)' <=> Busy(q))
  BY DEF Current, Busy
<1>2. AttemptsTried'
  <2>1. \A i : r \in Trying(i)' <=> r \in Trying(i)
    BY <1>1 DEF Trying
  <2> SUFFICES ASSUME NEW i \in Record \ published'
               PROVE  attempts'[i] + One(r \in Trying(i)') + tries[i]
                        <= attempts[i] + One(r \in Trying(i)) + tries'[i]
    BY AttemptsKept DEF Retry
  <2>2. One(r \in Trying(i)') = One(r \in Trying(i)) /\ One(r \in Trying(i)) \in Nat
    BY <2>1 DEF One
  <2> QED
    BY <2>2 DEF TypeOK
<1>3. SeenTried'
  BY <1>1 DEF Retry, SeenTried
<1>4. DyingLast'
  BY <1>1 DEF Retry, DyingLast
<1>5. DeadIsExhausted'
  BY DEF Retry, DeadIsExhausted
<1> QED
  BY <1>2, <1>3, <1>4, <1>5 DEF Retry

\* The mark of the current row adds one to its column.
LEMMA MarkCounts ==
  ASSUME TypeOK, BusyHasBatch, ~CountsOnClaim, NEW r \in Relay, Busy(r),
         attempts' = Counted(Current(r))
  PROVE  \A i \in Record : attempts'[i] = attempts[i] + One(r \in Trying(i))
<1> DEFINE c == Current(r)
<1>1. c \in Record /\ attempts' = [attempts EXCEPT ![c] = @ + 1]
  BY CurrentRow DEF Counted
<1>2. \A i : r \in Trying(i) <=> c = i
  BY DEF Trying
<1> HIDE DEF c
<1> QED
  BY <1>1, <1>2 DEF One, TypeOK

\* The row given up had its last attempt.
LEMMA DyingTried ==
  ASSUME TypeOK, BusyHasBatch, Retry, NEW r \in Relay, step[r] = "dying"
  PROVE  tries[Current(r)] >= MaxAttempts
<1>1. Busy(r)
  BY DEF Busy
<1>2. Current(r) \in Record
  BY <1>1, CurrentRow
<1>3. seen[r][Current(r)] + 1 >= MaxAttempts
  BY DEF Retry, DyingLast
<1>4. seen[r][Current(r)] < tries[Current(r)]
  BY <1>1 DEF Retry, SeenTried
<1>5. seen[r] \in [Record -> Nat] /\ tries \in [Record -> Nat] /\ MaxAttempts \in Nat
  BY RelayAssumption DEF TypeOK
<1> QED
  BY <1>2, <1>3, <1>4, <1>5

LEMMA RetryStep == Backed /\ Retry /\ ~CountsOnClaim /\ [Next]_vars => Retry'
<1> SUFFICES ASSUME Backed, Retry, ~CountsOnClaim, [Next]_vars
             PROVE  Retry'
  OBVIOUS
<1> USE DEF table, process, client, history
<1>0. TypeOK /\ BusyHasBatch /\ TypeOK'
  BY TypeStep DEF Backed
<1>1. CASE UNCHANGED vars
  BY <1>1
  DEF vars, Retry, SeenTried, AttemptsTried, DyingLast, DeadIsExhausted, Trying,
      Busy, Current
<1>2. ASSUME NEW r \in Relay, NEW s \in Steps,
             step' = [step EXCEPT ![r] = s],
             (s \in {"idle", "claiming"}) <=> ~Busy(r),
             s = "dying" =>
               step[r] = "dying" \/ seen[r][Current(r)] + 1 >= MaxAttempts,
             UNCHANGED <<batch, seen, tries, dead>>,
             published \subseteq published',
             \A i \in Record \ published' : attempts'[i] = attempts[i]
      PROVE  Retry'
  <2>1. step'[r] = s /\ \A q \in Relay \ {r} : step'[q] = step[q]
    BY <1>0, <1>2 DEF TypeOK
  <2>2. Busy(r)' <=> Busy(r)
    BY <1>2, <2>1 DEF Busy
  <2> QED
    BY <1>0, <1>2, <2>1, <2>2, RetryStays
<1>3. \A n : FailStep(n) = "dying" => n + 1 >= MaxAttempts
  BY DEF FailStep
<1>4. ASSUME NEW r \in Relay,
             Tick(r) \/ Start(r) \/ Stop(r) \/ Terminate(r) \/ Reconnect(r)
      PROVE  Retry'
  <2>1. UNCHANGED <<attempts, batch, seen, tries, dead, published>>
    BY <1>4 DEF Tick, Start, Stop, Terminate, Reconnect
  <2>2. CASE step' = step
    BY <1>0, <2>1, <2>2, RetryStays DEF Busy
  <2>3. CASE step' # step
    <3>1. step[r] = "idle" /\ step' = [step EXCEPT ![r] = "claiming"]
      BY <1>4, <2>3 DEF Tick, Start, Stop, Terminate, Reconnect, Running
    <3> QED
      BY <1>2, <2>1, <3>1 DEF Busy, Steps
  <2> QED
    BY <2>2, <2>3
<1>5. ASSUME NEW r \in Relay, NEW i \in Record, Commit(r, i) \/ Wake(r, i)
      PROVE  Retry'
  <2>1. UNCHANGED <<attempts, batch, seen, tries, dead, published, step>>
    BY <1>5 DEF Commit, Wake
  <2> QED
    BY <1>0, <2>1, RetryStays DEF Busy
<1>6. ASSUME NEW r \in Relay,
             BrokerAccepts(r) \/ BrokerConfirms(r) \/ BrokerRejects(r)
               \/ Disconnect(r) \/ Close(r)
      PROVE  Retry'
  <2>1. UNCHANGED <<attempts, batch, seen, tries, dead, published>>
    BY <1>6 DEF BrokerAccepts, BrokerConfirms, BrokerRejects, Disconnect, Close
  <2>2. CASE step' = step
    BY <1>0, <2>1, <2>2, RetryStays DEF Busy
  <2>3. CASE step' # step
    <3>1. /\ step[r] \in {"sending", "confirming"}
          /\ \E s \in {"sending", "confirming", "marking",
                       FailStep(seen[r][Current(r)])} :
               step' = [step EXCEPT ![r] = s]
      BY <1>0, <1>6, <2>3
      DEF BrokerAccepts, BrokerConfirms, BrokerRejects, Disconnect, Close, TypeOK
    <3>2. FailStep(seen[r][Current(r)]) \in {"failing", "dying"}
      BY DEF FailStep
    <3>3. Busy(r)
      BY <3>1 DEF Busy
    <3> QED
      BY <1>2, <1>3, <2>1, <3>1, <3>2, <3>3 DEF Steps
  <2> QED
    BY <2>2, <2>3
<1>7. ASSUME NEW r \in Relay, MarkPublishedThrows(r)
      PROVE  Retry'
  <2>1. Busy(r)
    BY <1>7 DEF MarkPublishedThrows, Busy
  <2>2. /\ UNCHANGED <<batch, seen, tries, dead>>
        /\ published \subseteq published'
        /\ step' = [step EXCEPT ![r] = FailStep(seen[r][Current(r)])]
        /\ \/ UNCHANGED attempts
           \/ Current(r) \in published' /\ attempts' = Counted(Current(r))
    BY <1>7 DEF MarkPublishedThrows
  <2>3. \A i \in Record \ published' : attempts'[i] = attempts[i]
    <3>1. Current(r) \in Record /\ attempts \in [Record -> Nat]
      BY <1>0, <2>1, CurrentRow DEF TypeOK
    <3> QED
      BY <2>2, <3>1 DEF Counted
  <2>4. FailStep(seen[r][Current(r)]) \in {"failing", "dying"}
    BY DEF FailStep
  <2> QED
    BY <1>2, <1>3, <2>1, <2>2, <2>3, <2>4 DEF Steps
<1>8. ASSUME NEW r \in Relay, Claim(r)
      PROVE  Retry'
  <2> DEFINE claimed == Oldest(Pending, BatchSize)
             returned == [i \in Record |-> IF i \in claimed THEN attempts[i] ELSE 0]
  <2>0. CountedByClaim(claimed) = attempts
    BY <1>0 DEF CountedByClaim, TypeOK
  <2>1. claimed \in SUBSET Record /\ claimed \subseteq Record \ published
    BY <1>0, OldestRows DEF Pending, TypeOK
  <2>2. Proceed(r, claimed, returned) /\ UNCHANGED <<attempts, published, dead>>
    BY <1>8, <2>0 DEF Claim
  <2>3. returned \in [Record -> Nat]
    BY <1>0 DEF TypeOK
  <2>4. \A i \in claimed : returned[i] = attempts[i]
    BY <2>1
  <2> HIDE DEF claimed, returned
  <2>5. \A i \in claimed : returned[i] <= tries[i]
    <3> SUFFICES ASSUME NEW i \in claimed
                 PROVE  attempts[i] <= tries[i]
      BY <2>4
    <3>1. attempts[i] + Cardinality(Trying(i)) <= tries[i]
      BY <2>1 DEF Retry, AttemptsTried
    <3>2. Trying(i) \in SUBSET Relay
      BY DEF Trying
    <3>3. Cardinality(Trying(i)) \in Nat
      BY <3>2, RelayAssumption, FS_Subset, FS_CardinalityType
    <3>4. attempts[i] \in Nat /\ tries[i] \in Nat
      BY <1>0, <2>1 DEF TypeOK
    <3> QED
      BY <3>1, <3>3, <3>4
  <2>6. \A i \in Record \ published' :
          attempts'[i] <= attempts[i] + One(r \in Trying(i))
    BY <1>0, <2>2 DEF TypeOK, One
  <2>7. \A i \in dead' : tries[i] >= MaxAttempts
    BY <2>2 DEF Retry, DeadIsExhausted
  <2> QED
    BY <1>0, <2>1, <2>2, <2>3, <2>5, <2>6, <2>7, RetryProceed
<1>9. ASSUME NEW r \in Relay, MarkPublished(r) \/ MarkFailed(r) \/ MarkDead(r)
      PROVE  Retry'
  <2> DEFINE rest == batch[r] \ {Current(r)}
  <2>1. Busy(r)
    BY <1>9 DEF MarkPublished, MarkFailed, MarkDead, Busy
  <2>2. rest \in SUBSET Record /\ seen[r] \in [Record -> Nat]
    BY <1>0 DEF TypeOK
  <2>3. /\ Proceed(r, rest, seen[r])
        /\ published \subseteq published'
        /\ attempts' = Counted(Current(r))
        /\ dead' = dead \/ (step[r] = "dying" /\ dead' = dead \cup {Current(r)})
    BY <1>9 DEF MarkPublished, MarkFailed, MarkDead
  <2>4. \A i \in rest : seen[r][i] <= tries[i]
    BY DEF Retry, SeenTried
  <2>5. \A i \in Record \ published' :
          attempts'[i] <= attempts[i] + One(r \in Trying(i))
    <3>1. \A i \in Record : attempts'[i] = attempts[i] + One(r \in Trying(i))
      BY <1>0, <2>1, <2>3, MarkCounts
    <3>2. \A i \in Record : attempts'[i] \in Nat
      BY <1>0 DEF TypeOK
    <3> QED
      BY <3>1, <3>2
  <2>6. \A i \in dead' : tries[i] >= MaxAttempts
    BY <1>0, <2>3, DyingTried DEF Retry, DeadIsExhausted
  <2> HIDE DEF rest
  <2> QED
    BY <1>0, <2>2, <2>3, <2>4, <2>5, <2>6, RetryProceed
<1>10. ASSUME NEW r \in Relay, ClaimFails(r) \/ MarkThrows(r) \/ GoDown(r)
       PROVE  Retry'
  <2>1. /\ step' = [step EXCEPT ![r] = "idle"]
        /\ batch' = [batch EXCEPT ![r] = {}]
        /\ seen' = [seen EXCEPT ![r] = Zeros]
        /\ UNCHANGED <<tries, published>>
    BY <1>10 DEF ClaimFails, MarkThrows, GoDown, EndTick
  <2>2. CASE UNCHANGED <<attempts, dead>>
    <3>1. \A i \in Record \ published' :
            attempts'[i] <= attempts[i] + One(r \in Trying(i))
      BY <1>0, <2>2 DEF TypeOK, One
    <3>2. \A i \in dead' : tries[i] >= MaxAttempts
      BY <2>2 DEF Retry, DeadIsExhausted
    <3> QED
      BY <1>0, <2>1, <3>1, <3>2, RetryEnds
  <2>3. CASE ~UNCHANGED <<attempts, dead>>
    <3>1. /\ step[r] \in {"failing", "dying"}
          /\ attempts' = Counted(Current(r))
          /\ dead' = dead \/ (step[r] = "dying" /\ dead' = dead \cup {Current(r)})
      BY <1>10, <2>3 DEF ClaimFails, MarkThrows, GoDown
    <3>2. Busy(r)
      BY <3>1 DEF Busy
    <3>3. \A i \in Record : attempts'[i] = attempts[i] + One(r \in Trying(i))
      BY <1>0, <3>1, <3>2, MarkCounts
    <3>4. \A i \in Record \ published' :
            attempts'[i] <= attempts[i] + One(r \in Trying(i))
      <4>1. \A i \in Record : attempts'[i] \in Nat
        BY <1>0 DEF TypeOK
      <4> QED
        BY <3>3, <4>1
    <3>5. \A i \in dead' : tries[i] >= MaxAttempts
      BY <1>0, <3>1, DyingTried DEF Retry, DeadIsExhausted
    <3> QED
      BY <1>0, <2>1, <3>4, <3>5, RetryEnds
  <2> QED
    BY <2>2, <2>3
<1> QED
  BY <1>1, <1>4, <1>5, <1>6, <1>7, <1>8, <1>9, <1>10
  DEF Next, Loop, Channel, Shutdown, Failure, Exit, Crash

\* Over PrismaOutboxStore a row is given up only after MaxAttempts calls of
\* publishRecord, for any number of relays over the table and whatever fails.
THEOREM GivenUpIsExhausted ==
  ASSUME ~CountsOnClaim
  PROVE  Spec => []DeadIsExhausted
<1>1. Init => Retry
  <2> SUFFICES ASSUME Init
               PROVE  Retry
    OBVIOUS
  <2>1. \A i : Trying(i) = {}
    BY DEF Init, Trying, Busy
  <2>2. AttemptsTried
    <3> SUFFICES ASSUME NEW i \in Record
                 PROVE  attempts[i] + Cardinality(Trying(i)) <= tries[i]
      BY DEF AttemptsTried
    <3>1. Cardinality(Trying(i)) = 0
      BY <2>1, FS_EmptySet
    <3>2. attempts[i] = 0 /\ tries[i] = 0
      BY DEF Init, Zeros
    <3> QED
      BY <3>1, <3>2
  <2> QED
    BY <2>2 DEF Init, Retry, SeenTried, DyingLast, DeadIsExhausted, Busy
<1>2. Retry => DeadIsExhausted
  BY DEF Retry
<1>3. Backed /\ Retry /\ [Next]_vars => Retry'
  BY RetryStep
<1> QED
  BY <1>1, <1>2, <1>3, BackedInit, BackedStep, PTL DEF Spec

-----------------------------------------------------------------------------
(***************************************************************************)
(* Copies.  While a row is neither published nor given up, each copy of it *)
(* in the broker is one a relay is about to mark, or has a fault to        *)
(* explain it.  Once it is, only the relays that claimed it before and     *)
(* have not sent it may add one.                                           *)
(***************************************************************************)

Settled == published \cup dead

\* The relays that had row i accepted and are to mark it.
Confirmed(i) ==
  {r \in Relay : step[r] \in {"confirming", "marking"} /\ Current(r) = i}

\* The relays that have claimed row i and not had it accepted.
Unsent(i) == {r \in Relay : i \in batch[r] /\ (Current(r) = i => step[r] = "sending")}

\* The relays whose shutdown, a fault already, is yet to cost what it can: a
\* confirm that Close drops, or a mark that Exit cuts off.
Leaving == {r \in Relay : life[r] = "term" /\ (open[r] \/ step[r] = "marking")}

ClosedIsSilent == \A r \in Relay : ~open[r] => step[r] \notin {"sending", "confirming"}

CopiesPaid ==
  \A i \in Record \ Settled :
    held[i] + Cardinality(Leaving) <= Cardinality(Confirmed(i)) + faults

SettledPaid ==
  \A i \in Settled : held[i] + Cardinality(Unsent(i)) <= Cardinality(Relay) + faults

\* A relay of its own works on no row that is settled.
AloneIsExact ==
  Cardinality(Relay) = 1 /\ faults = 0 =>
    /\ \A r \in Relay : batch[r] \cap Settled = {}
    /\ \A i \in dead : held[i] = 0

Paid == ClosedIsSilent /\ CopiesPaid /\ SettledPaid

LEMMA RelaysCount ==
  /\ Cardinality(Relay) \in Nat
  /\ \A S \in SUBSET Relay : /\ IsFiniteSet(S) /\ Cardinality(S) \in Nat
                            /\ Cardinality(S) <= Cardinality(Relay)
BY RelayAssumption, FS_Subset, FS_CardinalityType

LEMMA OneType == \A p : One(p) \in {0, 1} /\ (p => One(p) = 1) /\ (~p => One(p) = 0)
BY DEF One

\* Two sets of relays that differ in r at most.
LEMMA CountMoves ==
  ASSUME NEW S \in SUBSET Relay, NEW T \in SUBSET Relay, NEW r \in Relay,
         S \ {r} = T \ {r}
  PROVE  /\ Cardinality(S) \in Nat /\ Cardinality(T) \in Nat
         /\ Cardinality(T) + One(r \in S) = Cardinality(S) + One(r \in T)
<1> DEFINE n == Cardinality(S \ {r})
<1>1. n \in Nat /\ Cardinality(S) = n + One(r \in S)
  BY CountWithout
<1>2. Cardinality(T) = n + One(r \in T)
  BY CountWithout
<1> HIDE DEF n
<1> QED
  BY <1>1, <1>2 DEF One

\* Disjoint sets of relays.
LEMMA CountDisjoint ==
  ASSUME NEW S \in SUBSET Relay, NEW T \in SUBSET Relay, S \cap T = {}
  PROVE  Cardinality(S) + Cardinality(T) <= Cardinality(Relay)
<1>1. /\ IsFiniteSet(S) /\ IsFiniteSet(T)
      /\ Cardinality(S) \in Nat /\ Cardinality(T) \in Nat
  BY RelaysCount
<1>2. Cardinality(S \cup T) = Cardinality(S) + Cardinality(T) - Cardinality(S \cap T)
  BY <1>1, FS_Union
<1>3. Cardinality(S \cap T) = 0
  BY FS_EmptySet
<1>4. S \cup T \in SUBSET Relay
  OBVIOUS
<1>5. Cardinality(S \cup T) <= Cardinality(Relay)
  BY <1>4, RelaysCount
<1> QED
  BY <1>1, <1>2, <1>3, <1>5

-----------------------------------------------------------------------------
\* A step of r, from what it does to r alone.
LEMMA PaidKept ==
  ASSUME TypeOK, TypeOK', CopiesPaid, SettledPaid, NEW r \in Relay,
         Settled \subseteq Settled', faults' >= faults,
         \A q \in Relay \ {r} : /\ step'[q] = step[q] /\ batch'[q] = batch[q]
                              /\ life'[q] = life[q] /\ open'[q] = open[q],
         \A i \in Record \ Settled' :
           held'[i] + One(r \in Leaving') + One(r \in Confirmed(i)) + faults
             <= held[i] + One(r \in Leaving) + One(r \in Confirmed(i)') + faults',
         \A i \in Settled :
           held'[i] + One(r \in Unsent(i)') + faults
             <= held[i] + One(r \in Unsent(i)) + faults',
         \A i \in Settled' \ Settled : held'[i] = held[i] /\ r \notin Unsent(i)'
  PROVE  CopiesPaid' /\ SettledPaid'
<1> USE OneType
<1>1. \A q \in Relay \ {r} : Current(q)' = Current(q)
  BY DEF Current
<1>2. /\ Leaving \in SUBSET Relay /\ Leaving' \in SUBSET Relay
      /\ Leaving \ {r} = Leaving' \ {r}
  BY DEF Leaving
<1>3. \A i : /\ Confirmed(i) \in SUBSET Relay /\ Confirmed(i)' \in SUBSET Relay
             /\ Confirmed(i) \ {r} = Confirmed(i)' \ {r}
  BY <1>1 DEF Confirmed
<1>4. \A i : /\ Unsent(i) \in SUBSET Relay /\ Unsent(i)' \in SUBSET Relay
             /\ Unsent(i) \ {r} = Unsent(i)' \ {r}
  BY <1>1 DEF Unsent
<1>5. Settled \subseteq Record /\ Settled' \subseteq Record
  BY DEF Settled, TypeOK
<1>6. /\ faults \in Nat /\ faults' \in Nat
      /\ \A i \in Record : held[i] \in Nat /\ held'[i] \in Nat
  BY DEF TypeOK
<1>7. ASSUME NEW i \in Record \ Settled'
      PROVE  held'[i] + Cardinality(Leaving') <= Cardinality(Confirmed(i)') + faults'
  <2>1. /\ Cardinality(Leaving) \in Nat /\ Cardinality(Leaving') \in Nat
        /\ Cardinality(Leaving') + One(r \in Leaving)
             = Cardinality(Leaving) + One(r \in Leaving')
    BY <1>2, CountMoves
  <2>2. /\ Cardinality(Confirmed(i)) \in Nat /\ Cardinality(Confirmed(i)') \in Nat
        /\ Cardinality(Confirmed(i)') + One(r \in Confirmed(i))
             = Cardinality(Confirmed(i)) + One(r \in Confirmed(i)')
    BY <1>3, CountMoves
  <2>3. held[i] + Cardinality(Leaving) <= Cardinality(Confirmed(i)) + faults
    BY DEF CopiesPaid
  <2>4. held'[i] + One(r \in Leaving') + One(r \in Confirmed(i)) + faults
          <= held[i] + One(r \in Leaving) + One(r \in Confirmed(i)') + faults'
    OBVIOUS
  <2>5. /\ One(r \in Leaving) \in Nat /\ One(r \in Leaving') \in Nat
        /\ One(r \in Confirmed(i)) \in Nat /\ One(r \in Confirmed(i)') \in Nat
    BY DEF One
  <2> QED
    BY <1>6, <2>1, <2>2, <2>3, <2>4, <2>5
<1>8. ASSUME NEW i \in Settled
      PROVE  held'[i] + Cardinality(Unsent(i)') <= Cardinality(Relay) + faults'
  <2>1. /\ Cardinality(Unsent(i)) \in Nat /\ Cardinality(Unsent(i)') \in Nat
        /\ Cardinality(Unsent(i)') + One(r \in Unsent(i))
             = Cardinality(Unsent(i)) + One(r \in Unsent(i)')
    BY <1>4, CountMoves
  <2>2. held[i] + Cardinality(Unsent(i)) <= Cardinality(Relay) + faults
    BY DEF SettledPaid
  <2>3. held'[i] + One(r \in Unsent(i)') + faults
          <= held[i] + One(r \in Unsent(i)) + faults'
    OBVIOUS
  <2>4. One(r \in Unsent(i)) \in Nat /\ One(r \in Unsent(i)') \in Nat
    BY DEF One
  <2> QED
    BY <1>5, <1>6, <2>1, <2>2, <2>3, <2>4, RelaysCount
<1>9. ASSUME NEW i \in Settled' \ Settled
      PROVE  held'[i] + Cardinality(Unsent(i)') <= Cardinality(Relay) + faults'
  <2>1. Confirmed(i) \cap Unsent(i)' = {}
    BY <1>1 DEF Confirmed, Unsent
  <2>2. Cardinality(Confirmed(i)) + Cardinality(Unsent(i)') <= Cardinality(Relay)
    BY <1>3, <1>4, <2>1, CountDisjoint
  <2>3. held[i] + Cardinality(Leaving) <= Cardinality(Confirmed(i)) + faults
    BY <1>5 DEF CopiesPaid
  <2>4. /\ Cardinality(Leaving) \in Nat /\ Cardinality(Confirmed(i)) \in Nat
        /\ Cardinality(Unsent(i)') \in Nat
    BY <1>2, <1>3, <1>4, RelaysCount
  <2> QED
    BY <1>5, <1>6, <2>2, <2>3, <2>4, RelaysCount
<1> QED
  BY <1>7, <1>8, <1>9 DEF CopiesPaid, SettledPaid

\* Only r changes its part of what Paid speaks of, with no copy, no row
\* settled and no attempt confirmed or dropped.
LEMMA PaidQuiet ==
  ASSUME TypeOK, TypeOK', Paid, NEW r \in Relay,
         UNCHANGED <<held, batch, published, dead>>, faults' >= faults,
         \A q \in Relay \ {r} : /\ step'[q] = step[q]
                              /\ life'[q] = life[q] /\ open'[q] = open[q],
         step'[r] \in {"confirming", "marking"} <=> step[r] \in {"confirming", "marking"},
         step'[r] = "sending" => step[r] = "sending",
         ~open'[r] => step'[r] \notin {"sending", "confirming"},
         r \in Leaving' => r \in Leaving \/ faults' > faults
  PROVE  Paid'
<1> USE DEF One
<1>1. \A q \in Relay : Current(q)' = Current(q)
  BY DEF Current
<1>2. Settled' = Settled /\ Settled \subseteq Record
  BY DEF Settled, TypeOK
<1>3. /\ \A i : r \in Confirmed(i)' <=> r \in Confirmed(i)
      /\ \A i : r \in Unsent(i)' => r \in Unsent(i)
  BY <1>1 DEF Confirmed, Unsent
<1>4. /\ faults \in Nat /\ faults' \in Nat
      /\ \A i \in Record : held[i] \in Nat /\ held'[i] = held[i]
  BY DEF TypeOK
<1>5. \A i \in Record \ Settled' :
        held'[i] + One(r \in Leaving') + One(r \in Confirmed(i)) + faults
          <= held[i] + One(r \in Leaving) + One(r \in Confirmed(i)') + faults'
  <2> SUFFICES ASSUME NEW i \in Record
               PROVE  held'[i] + One(r \in Leaving') + One(r \in Confirmed(i)) + faults
                        <= held[i] + One(r \in Leaving) + One(r \in Confirmed(i)') + faults'
    OBVIOUS
  <2>1. One(r \in Confirmed(i)') = One(r \in Confirmed(i))
    BY <1>3
  <2>2. One(r \in Leaving') + faults <= One(r \in Leaving) + faults'
    <3>1. CASE faults' > faults
      BY <1>4, <3>1
    <3>2. CASE r \in Leaving' => r \in Leaving
      <4>1. One(r \in Leaving') <= One(r \in Leaving)
        BY <3>2
      <4>2. One(r \in Leaving') \in Nat /\ One(r \in Leaving) \in Nat
        OBVIOUS
      <4> HIDE DEF One
      <4> QED
        BY <1>4, <4>1, <4>2
    <3> QED
      BY <3>1, <3>2
  <2>3. /\ One(r \in Confirmed(i)) \in Nat
        /\ One(r \in Leaving) \in Nat /\ One(r \in Leaving') \in Nat
    BY DEF One
  <2> QED
    BY <1>4, <2>1, <2>2, <2>3
<1>6. \A i \in Settled :
        held'[i] + One(r \in Unsent(i)') + faults
          <= held[i] + One(r \in Unsent(i)) + faults'
  <2> SUFFICES ASSUME NEW i \in Record
               PROVE  held'[i] + One(r \in Unsent(i)') + faults
                        <= held[i] + One(r \in Unsent(i)) + faults'
    BY <1>2
  <2>1. CASE ~(r \in Unsent(i)')
    BY <1>4, <2>1
  <2>2. CASE r \in Unsent(i)
    BY <1>4, <2>2
  <2> QED
    BY <1>3, <2>1, <2>2
<1>7. CopiesPaid' /\ SettledPaid'
  <2>1. \A q \in Relay \ {r} : batch'[q] = batch[q]
    OBVIOUS
  <2> QED
    BY <1>2, <1>5, <1>6, <2>1, PaidKept DEF Paid
<1>8. ClosedIsSilent'
  BY DEF Paid, ClosedIsSilent
<1> QED
  BY <1>7, <1>8 DEF Paid

\* A step of the loop that goes on with rest, of which it has sent nothing.
LEMMA PaidProceed ==
  ASSUME TypeOK, TypeOK', Paid, NEW r \in Relay,
         NEW rest \in SUBSET Record, NEW returned \in [Record -> Nat],
         Proceed(r, rest, returned),
         UNCHANGED <<held, life, open, faults>>,
         Settled \subseteq Settled',
         \A i : r \in Confirmed(i) => i \in Settled',
         \A i \in rest : i \notin Settled' \/ (i \in Settled /\ r \in Unsent(i))
  PROVE  Paid'
<1> USE DEF One
<1>1. /\ batch'[r] = rest
      /\ step'[r] \in {"idle", "sending", "failing", "dying"}
      /\ \A q \in Relay \ {r} : step'[q] = step[q] /\ batch'[q] = batch[q]
  <2>1. /\ batch' = [batch EXCEPT ![r] = rest]
        /\ \E s \in {"idle", "sending", "failing", "dying"} :
             step' = [step EXCEPT ![r] = s]
    BY ProceedShape
  <2> QED
    BY <2>1 DEF TypeOK
<1>2. step'[r] = "sending" => open[r]
  <2>1. FailStep(returned[First(rest)]) # "sending"
    BY DEF FailStep
  <2> QED
    BY <2>1 DEF Proceed, EndTick, Publish, TypeOK
<1>3. ClosedIsSilent'
  BY <1>1, <1>2 DEF Paid, ClosedIsSilent
<1>4. (r \in Leaving' => r \in Leaving) /\ \A i : r \notin Confirmed(i)'
  BY <1>1 DEF Leaving, Confirmed
<1>5. \A i : r \in Unsent(i)' => i \in rest
  BY <1>1 DEF Unsent
<1>6. /\ faults \in Nat /\ faults' = faults
      /\ \A i \in Record : held[i] \in Nat /\ held'[i] = held[i]
      /\ Settled' \subseteq Record
  BY DEF TypeOK, Settled
<1>7. ASSUME NEW i \in Record \ Settled'
      PROVE  held'[i] + One(r \in Leaving') + One(r \in Confirmed(i)) + faults
               <= held[i] + One(r \in Leaving) + One(r \in Confirmed(i)') + faults'
  <2>1. One(r \in Confirmed(i)) = 0 /\ One(r \in Confirmed(i)') = 0
    BY <1>4
  <2>2. /\ One(r \in Leaving') <= One(r \in Leaving)
        /\ One(r \in Leaving') \in Nat /\ One(r \in Leaving) \in Nat
    BY <1>4 DEF One
  <2> QED
    BY <1>6, <2>1, <2>2
<1>8. ASSUME NEW i \in Settled
      PROVE  held'[i] + One(r \in Unsent(i)') + faults
               <= held[i] + One(r \in Unsent(i)) + faults'
  <2>1. r \in Unsent(i)' => r \in Unsent(i)
    BY <1>5
  <2>2. /\ One(r \in Unsent(i)') <= One(r \in Unsent(i))
        /\ One(r \in Unsent(i)') \in Nat /\ One(r \in Unsent(i)) \in Nat
    BY <2>1 DEF One
  <2> QED
    BY <1>6, <2>2
<1>9. \A i \in Settled' \ Settled : held'[i] = held[i] /\ r \notin Unsent(i)'
  BY <1>5, <1>6
<1>10. CopiesPaid' /\ SettledPaid'
  BY <1>1, <1>6, <1>7, <1>8, <1>9, PaidKept DEF Paid
<1> QED
  BY <1>3, <1>10 DEF Paid

\* A step that ends the tick of r, or its process.
LEMMA PaidEnds ==
  ASSUME TypeOK, TypeOK', Paid, NEW r \in Relay,
         step' = [step EXCEPT ![r] = "idle"],
         batch' = [batch EXCEPT ![r] = {}],
         UNCHANGED held, faults' >= faults,
         \A q \in Relay \ {r} : life'[q] = life[q] /\ open'[q] = open[q],
         Settled \subseteq Settled',
         r \in Leaving' => r \in Leaving,
         \A i : r \in Confirmed(i) =>
           faults' > faults \/ (r \in Leaving /\ r \notin Leaving')
  PROVE  Paid'
<1> USE DEF One
<1>1. /\ batch'[r] = {} /\ step'[r] = "idle"
      /\ \A q \in Relay \ {r} : step'[q] = step[q] /\ batch'[q] = batch[q]
  BY DEF TypeOK
<1>2. ClosedIsSilent'
  BY <1>1 DEF Paid, ClosedIsSilent
<1>3. \A i : r \notin Confirmed(i)' /\ r \notin Unsent(i)'
  BY <1>1 DEF Confirmed, Unsent
<1>4. /\ faults \in Nat /\ faults' \in Nat
      /\ \A i \in Record : held[i] \in Nat /\ held'[i] = held[i]
      /\ Settled' \subseteq Record
  BY DEF TypeOK, Settled
<1>5. ASSUME NEW i \in Record \ Settled'
      PROVE  held'[i] + One(r \in Leaving') + One(r \in Confirmed(i)) + faults
               <= held[i] + One(r \in Leaving) + One(r \in Confirmed(i)') + faults'
  <2>1. One(r \in Confirmed(i)') = 0
    BY <1>3
  <2>2. /\ One(r \in Leaving') <= One(r \in Leaving)
        /\ One(r \in Leaving') \in Nat /\ One(r \in Leaving) \in Nat
    BY DEF One
  <2>3. CASE ~(r \in Confirmed(i))
    BY <1>4, <2>1, <2>2, <2>3
  <2>4. CASE faults' > faults
    <3>1. One(r \in Confirmed(i)) \in {0, 1}
      OBVIOUS
    <3> QED
      BY <1>4, <2>1, <2>2, <2>4, <3>1
  <2>5. CASE r \in Leaving /\ r \notin Leaving'
    <3>1. One(r \in Leaving) = 1 /\ One(r \in Leaving') = 0
      BY <2>5
    <3>2. One(r \in Confirmed(i)) \in {0, 1}
      OBVIOUS
    <3> QED
      BY <1>4, <2>1, <3>1, <3>2
  <2> QED
    BY <2>3, <2>4, <2>5
<1>6. ASSUME NEW i \in Settled
      PROVE  held'[i] + One(r \in Unsent(i)') + faults
               <= held[i] + One(r \in Unsent(i)) + faults'
  <2>1. One(r \in Unsent(i)') = 0 /\ One(r \in Unsent(i)) \in Nat
    BY <1>3 DEF One
  <2> QED
    BY <1>4, <2>1
<1>7. CopiesPaid' /\ SettledPaid'
  BY <1>1, <1>3, <1>4, <1>5, <1>6, PaidKept DEF Paid
<1> QED
  BY <1>2, <1>7 DEF Paid

\* The broker takes the current row of r.
LEMMA PaidAccepts ==
  ASSUME TypeOK, BusyHasBatch, TypeOK', Paid, NEW r \in Relay, BrokerAccepts(r)
  PROVE  Paid'
<1> USE DEF table, process, client, history
<1> DEFINE c == Current(r)
<1>1. /\ c \in Record /\ c \in batch[r]
      /\ held' = [held EXCEPT ![c] = @ + 1]
      /\ step[r] = "sending" /\ step' = [step EXCEPT ![r] = "confirming"]
      /\ UNCHANGED <<published, dead, batch, life, open, faults>>
  BY CurrentRow DEF BrokerAccepts, Busy
<1>2. /\ \A q \in Relay : Current(q)' = Current(q)
      /\ Current(r)' = c
  BY <1>1 DEF Current
<1> HIDE DEF c
<1>3. /\ step'[r] = "confirming" /\ open[r]
      /\ \A q \in Relay \ {r} : step'[q] = step[q]
  BY <1>1 DEF TypeOK, Paid, ClosedIsSilent
<1>4. /\ r \in Leaving' <=> r \in Leaving
      /\ \A i : r \notin Confirmed(i) /\ (r \in Confirmed(i)' <=> i = c)
      /\ r \in Unsent(c)
      /\ \A i : r \in Unsent(i)' <=> r \in Unsent(i) /\ i # c
  BY <1>1, <1>2, <1>3 DEF Leaving, Confirmed, Unsent, c
<1>5. /\ Settled' = Settled /\ Settled \subseteq Record
      /\ faults \in Nat /\ faults' = faults
      /\ \A i \in Record : held[i] \in Nat /\ held'[i] = held[i] + One(i = c)
  BY <1>1 DEF Settled, TypeOK, One
<1>6. ASSUME NEW i \in Record
      PROVE  /\ One(r \in Leaving') = One(r \in Leaving) /\ One(r \in Leaving) \in Nat
             /\ One(r \in Confirmed(i)) = 0
             /\ One(r \in Confirmed(i)') = One(i = c)
             /\ One(r \in Unsent(i)) = One(r \in Unsent(i)') + One(i = c)
             /\ One(i = c) \in Nat /\ One(r \in Unsent(i)') \in Nat
  BY <1>4 DEF One
<1>7. CopiesPaid' /\ SettledPaid'
  <2>1. \A i \in Record :
          /\ held'[i] + One(r \in Leaving') + One(r \in Confirmed(i)) + faults
               <= held[i] + One(r \in Leaving) + One(r \in Confirmed(i)') + faults'
          /\ held'[i] + One(r \in Unsent(i)') + faults
               <= held[i] + One(r \in Unsent(i)) + faults'
    BY <1>5, <1>6
  <2>2. \A q \in Relay \ {r} : /\ step'[q] = step[q] /\ batch'[q] = batch[q]
                             /\ life'[q] = life[q] /\ open'[q] = open[q]
    BY <1>1, <1>3
  <2> QED
    BY <1>5, <2>1, <2>2, PaidKept DEF Paid
<1>8. ClosedIsSilent'
  BY <1>1, <1>3 DEF Paid, ClosedIsSilent
<1> QED
  BY <1>7, <1>8 DEF Paid

\* A fault, or the close of a channel, that costs r the confirm of its row.
LEMMA PaidDrops ==
  ASSUME TypeOK, BusyHasBatch, TypeOK', Paid, NEW r \in Relay,
         MarkPublishedThrows(r) \/ Disconnect(r) \/ Close(r)
  PROVE  Paid'
<1> USE DEF table, process, client, history
<1> DEFINE c == Current(r)
<1>1. /\ UNCHANGED <<held, batch, life, dead>>
      /\ \A q \in Relay : Current(q)' = Current(q)
      /\ \A q \in Relay \ {r} : step'[q] = step[q] /\ open'[q] = open[q]
  BY DEF MarkPublishedThrows, Disconnect, Close, Current, TypeOK
<1>2. FailStep(seen[r][c]) \in {"failing", "dying"}
  BY DEF FailStep
<1>3. /\ Settled' = Settled \/ (step[r] = "marking" /\ Settled' = Settled \cup {c})
      /\ Settled' \subseteq Record
  BY DEF MarkPublishedThrows, Disconnect, Close, Settled, TypeOK
<1>4. /\ step'[r] # "confirming"
      /\ step'[r] = "marking" => step[r] = "marking" /\ Settled' = Settled
      /\ ~open'[r] => step'[r] # "sending"
      /\ step[r] = "marking" /\ Settled' # Settled => step'[r] # "sending"
      /\ step'[r] = "sending" => step[r] = "sending" \/ faults' = faults + 1
      /\ r \in Leaving' => r \in Leaving
      /\ \/ faults' = faults + 1
         \/ /\ faults' = faults
            /\ \/ step'[r] = step[r]
               \/ step[r] = "sending"
               \/ r \in Leaving /\ r \notin Leaving'
  <2>1. CASE MarkPublishedThrows(r)
    <3>1. /\ step[r] = "marking" /\ faults' = faults + 1 /\ UNCHANGED <<life, open>>
          /\ step'[r] \in {"failing", "dying"}
      BY <1>2, <2>1 DEF MarkPublishedThrows, Fault, TypeOK
    <3> QED
      BY <3>1 DEF Leaving
  <2>2. CASE Disconnect(r)
    <3>1. /\ open[r] /\ faults' = faults + 1 /\ UNCHANGED <<life, open>>
          /\ step'[r] = IF step[r] = "confirming" THEN "sending" ELSE step[r]
          /\ Settled' = Settled
      BY <2>2 DEF Disconnect, Fault, TypeOK, Settled
    <3> QED
      BY <3>1 DEF Leaving
  <2>3. CASE Close(r)
    <3>1. /\ life[r] = "term" /\ open[r] /\ ~open'[r] /\ faults' = faults
          /\ step'[r] = IF step[r] \in {"sending", "confirming"}
                           THEN FailStep(seen[r][c]) ELSE step[r]
          /\ Settled' = Settled
      BY <2>3 DEF Close, TypeOK, Settled
    <3> HIDE DEF c
    <3> QED
      BY <1>1, <1>2, <3>1 DEF Leaving
  <2> QED
    BY <2>1, <2>2, <2>3
<1>5. /\ faults \in Nat /\ faults' \in Nat /\ faults' >= faults
      /\ \A i \in Record : held[i] \in Nat /\ held'[i] = held[i]
  BY <1>1, <1>4 DEF TypeOK
<1>6. Settled \subseteq Record /\ Settled \subseteq Settled'
  BY <1>3 DEF Settled, TypeOK
<1>7. ASSUME NEW i \in Record \ Settled'
      PROVE  held'[i] + One(r \in Leaving') + One(r \in Confirmed(i)) + faults
               <= held[i] + One(r \in Leaving) + One(r \in Confirmed(i)') + faults'
  <2>1. One(r \in Leaving') <= One(r \in Leaving)
    BY <1>4 DEF One
  <2>2. \/ faults' = faults + 1
        \/ faults' = faults /\ One(r \in Leaving') + 1 = One(r \in Leaving)
        \/ faults' = faults /\ One(r \in Confirmed(i)) = One(r \in Confirmed(i)')
        \/ faults' = faults /\ One(r \in Confirmed(i)) = 0
    BY <1>1, <1>4 DEF One, Confirmed
  <2>3. /\ One(r \in Leaving') \in {0, 1} /\ One(r \in Leaving) \in {0, 1}
        /\ One(r \in Confirmed(i)) \in {0, 1} /\ One(r \in Confirmed(i)') \in {0, 1}
    BY DEF One
  <2> QED
    BY <1>5, <2>1, <2>2, <2>3
<1>8. ASSUME NEW i \in Settled
      PROVE  held'[i] + One(r \in Unsent(i)') + faults
               <= held[i] + One(r \in Unsent(i)) + faults'
  <2>1. \/ faults' = faults + 1
        \/ r \in Unsent(i)' => r \in Unsent(i)
    BY <1>1, <1>4 DEF Unsent
  <2>2. \/ faults' = faults + 1
        \/ One(r \in Unsent(i)') <= One(r \in Unsent(i))
    BY <2>1 DEF One
  <2>3. One(r \in Unsent(i)') \in {0, 1} /\ One(r \in Unsent(i)) \in {0, 1}
    BY DEF One
  <2> QED
    BY <1>5, <1>6, <2>2, <2>3
<1>9. \A i \in Settled' \ Settled : held'[i] = held[i] /\ r \notin Unsent(i)'
  BY <1>1, <1>3, <1>4 DEF Unsent
<1>10. CopiesPaid' /\ SettledPaid'
  <2>1. \A q \in Relay \ {r} : /\ step'[q] = step[q] /\ batch'[q] = batch[q]
                             /\ life'[q] = life[q] /\ open'[q] = open[q]
    BY <1>1
  <2> QED
    BY <1>5, <1>6, <1>7, <1>8, <1>9, <2>1, PaidKept DEF Paid
<1>11. ClosedIsSilent'
  BY <1>1, <1>4 DEF Paid, ClosedIsSilent
<1> QED
  BY <1>10, <1>11 DEF Paid

LEMMA PaidStep == TypeOK /\ BusyHasBatch /\ Paid /\ [Next]_vars => Paid'
<1> SUFFICES ASSUME TypeOK, BusyHasBatch, Paid, [Next]_vars
             PROVE  Paid'
  OBVIOUS
<1> USE DEF table, process, client, history
<1>0. TypeOK'
  BY TypeStep
<1>1. CASE UNCHANGED vars
  <2>1. \A i : Confirmed(i)' = Confirmed(i) /\ Unsent(i)' = Unsent(i)
    BY <1>1 DEF vars, Confirmed, Unsent, Current
  <2>2. Settled' = Settled /\ Leaving' = Leaving
    BY <1>1 DEF vars, Settled, Leaving
  <2> QED
    BY <1>1, <2>1, <2>2 DEF vars, Paid, ClosedIsSilent, CopiesPaid, SettledPaid
<1>2. ASSUME NEW r \in Relay, Tick(r) \/ Start(r) \/ Stop(r) \/ Terminate(r) \/ Reconnect(r)
      PROVE  Paid'
  <2>1. /\ UNCHANGED <<held, batch, published, dead, open>>
        /\ \A q \in Relay \ {r} : step'[q] = step[q] /\ life'[q] = life[q]
    BY <1>2 DEF Tick, Start, Stop, Terminate, Reconnect, TypeOK
  <2>2. step'[r] = step[r] \/ (step[r] = "idle" /\ step'[r] = "claiming")
    BY <1>2 DEF Tick, Start, Stop, Terminate, Reconnect, TypeOK, Running
  <2>3. \/ faults' = faults /\ (life'[r] = life[r] \/ life'[r] = "up")
        \/ faults' = faults + 1
    BY <1>2 DEF Tick, Start, Stop, Terminate, Reconnect, TypeOK, Fault
  <2>4. faults' >= faults /\ (faults' = faults + 1 => faults' > faults)
    BY <2>3 DEF TypeOK
  <2>5. r \in Leaving' => r \in Leaving \/ faults' > faults
    BY <2>1, <2>2, <2>3, <2>4 DEF Leaving
  <2>6. ~open'[r] => step'[r] \notin {"sending", "confirming"}
    BY <2>1, <2>2 DEF Paid, ClosedIsSilent
  <2> QED
    BY <1>0, <2>1, <2>2, <2>4, <2>5, <2>6, PaidQuiet
<1>3. ASSUME NEW r \in Relay, NEW i \in Record, Commit(r, i) \/ Wake(r, i)
      PROVE  Paid'
  <2>1. UNCHANGED <<held, batch, published, dead, open, step, life, faults>>
    BY <1>3 DEF Commit, Wake
  <2> QED
    BY <1>0, <2>1, PaidQuiet DEF Leaving, Paid, ClosedIsSilent, TypeOK
<1>4. ASSUME NEW r \in Relay, BrokerConfirms(r) \/ BrokerRejects(r)
      PROVE  Paid'
  <2>1. /\ UNCHANGED <<held, batch, published, dead, open, life, faults>>
        /\ \A q \in Relay \ {r} : step'[q] = step[q]
    BY <1>4 DEF BrokerConfirms, BrokerRejects, TypeOK
  <2>2. FailStep(seen[r][Current(r)]) \in {"failing", "dying"}
    BY DEF FailStep
  <2>3. \/ step[r] = "confirming" /\ step'[r] = "marking"
        \/ step[r] = "sending" /\ step'[r] \in {"failing", "dying"}
    BY <1>4, <2>2 DEF BrokerConfirms, BrokerRejects, TypeOK
  <2>4. open[r]
    BY <2>3 DEF Paid, ClosedIsSilent
  <2>5. r \in Leaving' => r \in Leaving
    BY <2>1, <2>4 DEF Leaving
  <2>6. faults' >= faults
    BY <2>1 DEF TypeOK
  <2>7. /\ step'[r] \in {"confirming", "marking"} <=> step[r] \in {"confirming", "marking"}
        /\ step'[r] = "sending" => step[r] = "sending"
        /\ ~open'[r] => step'[r] \notin {"sending", "confirming"}
    BY <2>1, <2>3, <2>4
  <2> QED
    BY <1>0, <2>1, <2>5, <2>6, <2>7, PaidQuiet
<1>5. ASSUME NEW r \in Relay, Claim(r)
      PROVE  Paid'
  <2> DEFINE claimed == Oldest(Pending, BatchSize)
             counted == CountedByClaim(claimed)
             returned == [i \in Record |-> IF i \in claimed THEN counted[i] ELSE 0]
  <2>1. claimed \in SUBSET Record /\ claimed \cap Settled = {}
    BY OldestRows DEF Pending, TypeOK, Settled
  <2>2. counted \in [Record -> Nat]
    BY DEF CountedByClaim, TypeOK
  <2>3. returned \in [Record -> Nat]
    BY <2>2
  <2>4. /\ Proceed(r, claimed, returned) /\ step[r] = "claiming"
        /\ UNCHANGED <<held, life, open, faults, published, dead>>
    BY <1>5 DEF Claim
  <2> HIDE DEF claimed, counted, returned
  <2>5. Settled' = Settled /\ \A i : r \notin Confirmed(i)
    BY <2>4 DEF Settled, Confirmed
  <2> QED
    BY <1>0, <2>1, <2>3, <2>4, <2>5, PaidProceed
<1>6. ASSUME NEW r \in Relay, MarkPublished(r) \/ MarkFailed(r) \/ MarkDead(r)
      PROVE  Paid'
  <2> DEFINE c == Current(r)
             rest == batch[r] \ {c}
  <2>1. /\ Proceed(r, rest, seen[r])
        /\ UNCHANGED <<held, life, open, faults>>
        /\ step[r] \in {"marking", "failing", "dying"}
        /\ Settled' = Settled \/ Settled' = Settled \cup {c}
        /\ step[r] = "marking" => c \in Settled'
    BY <1>6 DEF MarkPublished, MarkFailed, MarkDead, Settled
  <2>2. rest \in SUBSET Record /\ seen[r] \in [Record -> Nat]
    BY DEF TypeOK
  <2>3. \A i : r \in Confirmed(i) => i \in Settled'
    BY <2>1 DEF Confirmed
  <2>4. \A i \in rest : i \notin Settled' \/ (i \in Settled /\ r \in Unsent(i))
    BY <2>1 DEF Unsent
  <2> HIDE DEF rest, c
  <2> QED
    BY <1>0, <2>1, <2>2, <2>3, <2>4, PaidProceed
<1>7. ASSUME NEW r \in Relay, ClaimFails(r) \/ MarkThrows(r) \/ GoDown(r),
             faults' = faults + 1 \/ (faults' = faults /\ Exit(r))
      PROVE  Paid'
  <2>1. /\ step' = [step EXCEPT ![r] = "idle"]
        /\ batch' = [batch EXCEPT ![r] = {}]
        /\ UNCHANGED held
    BY <1>7 DEF ClaimFails, MarkThrows, GoDown, EndTick
  <2>2. /\ Settled \subseteq Settled'
        /\ \A q \in Relay \ {r} : life'[q] = life[q] /\ open'[q] = open[q]
    BY <1>7 DEF ClaimFails, MarkThrows, GoDown, EndTick, TypeOK, Settled
  <2>3. step'[r] = "idle" /\ (life'[r] = "down" \/ UNCHANGED <<life, open>>)
    BY <1>7, <2>1 DEF ClaimFails, MarkThrows, GoDown, EndTick, TypeOK
  <2>4. r \in Leaving' => r \in Leaving
    BY <2>3 DEF Leaving
  <2>5. faults' >= faults /\ (faults' = faults + 1 => faults' > faults)
    BY <1>7 DEF TypeOK
  <2>6. ASSUME NEW i, r \in Confirmed(i), ~(faults' > faults)
        PROVE  r \in Leaving /\ r \notin Leaving'
    <3>1. Exit(r)
      BY <1>7, <2>5, <2>6
    <3>2. life[r] = "term" /\ ~open[r] /\ step[r] = "marking"
      BY <2>6, <3>1 DEF Exit, Confirmed, Paid, ClosedIsSilent
    <3>3. life'[r] = "down"
      BY <3>1 DEF Exit, GoDown, TypeOK
    <3> QED
      BY <3>2, <3>3 DEF Leaving
  <2> QED
    BY <1>0, <2>1, <2>2, <2>4, <2>5, <2>6, PaidEnds
<1>8. ASSUME NEW r \in Relay,
             ClaimFails(r) \/ MarkThrows(r) \/ Crash(r) \/ Exit(r)
      PROVE  Paid'
  BY <1>7, <1>8 DEF ClaimFails, MarkThrows, Crash, Exit, Fault
<1> QED
  BY <1>0, <1>1, <1>2, <1>3, <1>4, <1>5, <1>6, <1>8, PaidAccepts, PaidDrops
  DEF Next, Loop, Channel, Shutdown, Failure

LEMMA PaidInit == Init => Paid
<1> SUFFICES ASSUME Init
             PROVE  Paid
  OBVIOUS
<1>1. Leaving = {} /\ Settled = {} /\ \A i : Confirmed(i) = {}
  BY DEF Init, Leaving, Settled, Confirmed
<1>2. \A i \in Record : held[i] = 0
  BY DEF Init, Zeros
<1>3. faults = 0
  BY DEF Init
<1>4. CopiesPaid /\ SettledPaid
  BY <1>1, <1>2, <1>3, FS_EmptySet DEF CopiesPaid, SettledPaid
<1> QED
  BY <1>4 DEF Init, Paid, ClosedIsSilent

\* The broker holds no more copies of an event than relays poll the table and
\* faults have happened: publication is at least once, and each further copy
\* has its cause.
THEOREM CopiesAreExplained == Spec => []DuplicatesNeedFaults
<1>1. TypeOK /\ Paid => DuplicatesNeedFaults
  <2> SUFFICES ASSUME TypeOK, Paid, NEW i \in Record
               PROVE  held[i] <= Cardinality(Relay) + faults
    BY DEF DuplicatesNeedFaults
  <2>1. held[i] \in Nat /\ faults \in Nat /\ Cardinality(Relay) \in Nat
    BY RelaysCount DEF TypeOK
  <2>2. CASE i \in Settled
    <3>1. held[i] + Cardinality(Unsent(i)) <= Cardinality(Relay) + faults
      BY <2>2 DEF Paid, SettledPaid
    <3>2. Cardinality(Unsent(i)) \in Nat
      BY RelaysCount DEF Unsent
    <3> QED
      BY <2>1, <3>1, <3>2
  <2>3. CASE i \notin Settled
    <3>1. held[i] + Cardinality(Leaving) <= Cardinality(Confirmed(i)) + faults
      BY <2>3 DEF Paid, CopiesPaid
    <3>2. /\ Cardinality(Leaving) \in Nat /\ Cardinality(Confirmed(i)) \in Nat
          /\ Cardinality(Confirmed(i)) <= Cardinality(Relay)
      BY RelaysCount DEF Leaving, Confirmed
    <3> QED
      BY <2>1, <3>1, <3>2
  <2> QED
    BY <2>2, <2>3
<1>2. TypeOK /\ BusyHasBatch /\ [Next]_vars => TypeOK' /\ BusyHasBatch'
  BY TypeStep
<1> QED
  BY <1>1, <1>2, TypeInit, PaidInit, PaidStep, PTL DEF Spec

-----------------------------------------------------------------------------
(***************************************************************************)
(* A relay of its own, and no fault.                                       *)
(***************************************************************************)

\* Nothing but the rows of a batch changes.
LEMMA AloneStays ==
  ASSUME AloneIsExact, faults' = 0 => faults = 0,
         UNCHANGED <<published, dead, held>>,
         \A r \in Relay : batch'[r] \subseteq batch[r]
  PROVE  AloneIsExact'
BY DEF AloneIsExact, Settled

\* What a relay alone settles it takes from its batch, and the broker has no
\* copy of what it gives up.
LEMMA AloneSettles ==
  ASSUME TypeOK, BusyHasBatch, Paid, AloneIsExact, NEW r \in Relay,
         MarkPublished(r) \/ MarkFailed(r) \/ MarkDead(r)
  PROVE  AloneIsExact'
<1> USE DEF table, process, client, history
<1> DEFINE c == Current(r)
           rest == batch[r] \ {c}
<1>1. c \in Record /\ c \in batch[r] /\ Busy(r)
  BY CurrentRow DEF MarkPublished, MarkFailed, MarkDead, Busy
<1>2. /\ Proceed(r, rest, seen[r])
      /\ UNCHANGED <<held, faults>>
      /\ Settled' \subseteq Settled \cup {c}
      /\ dead' = dead \/ (dead' = dead \cup {c} /\ step[r] = "dying")
  BY DEF MarkPublished, MarkFailed, MarkDead, Settled
<1>3. batch'[r] = rest /\ \A q \in Relay \ {r} : batch'[q] = batch[q]
  <2>1. rest \in SUBSET Record
    BY DEF TypeOK
  <2> HIDE DEF rest
  <2>2. batch' = [batch EXCEPT ![r] = rest]
    BY <1>2, <2>1, ProceedShape
  <2> QED
    BY <2>2 DEF TypeOK
<1> SUFFICES ASSUME Cardinality(Relay) = 1, faults = 0
             PROVE  /\ \A q \in Relay : batch'[q] \cap Settled' = {}
                    /\ \A i \in dead' : held[i] = 0
  BY <1>2 DEF AloneIsExact
<1>4. Relay = {r}
  BY RelayAssumption, FS_Singleton
<1>5. batch[r] \cap Settled = {} /\ \A i \in dead : held[i] = 0
  BY DEF AloneIsExact
<1>6. \A q \in Relay : batch'[q] \cap Settled' = {}
  BY <1>2, <1>3, <1>4, <1>5
<1>7. ASSUME step[r] = "dying"
      PROVE  held[c] = 0
  <2>1. held[c] + Cardinality(Leaving) <= Cardinality(Confirmed(c)) + faults
    BY <1>1, <1>5 DEF Paid, CopiesPaid
  <2>2. Confirmed(c) = {}
    BY <1>4, <1>7 DEF Confirmed
  <2>3. Cardinality(Confirmed(c)) = 0
    BY <2>2, FS_EmptySet
  <2>4. Cardinality(Leaving) \in Nat /\ held[c] \in Nat
    BY <1>1, RelaysCount DEF Leaving, TypeOK
  <2> QED
    BY <2>1, <2>3, <2>4
<1> QED
  BY <1>2, <1>5, <1>6, <1>7

LEMMA AloneStep ==
  TypeOK /\ BusyHasBatch /\ Paid /\ AloneIsExact /\ [Next]_vars => AloneIsExact'
<1> SUFFICES ASSUME TypeOK, BusyHasBatch, Paid, AloneIsExact, [Next]_vars
             PROVE  AloneIsExact'
  OBVIOUS
<1> USE DEF table, process, client, history
<1>1. CASE UNCHANGED vars
  BY <1>1, AloneStays DEF vars
<1>2. ASSUME NEW r \in Relay,
             \/ Tick(r) \/ Start(r) \/ Stop(r) \/ Reconnect(r) \/ Exit(r) \/ Close(r)
             \/ BrokerConfirms(r) \/ BrokerRejects(r)
      PROVE  AloneIsExact'
  <2>1. /\ UNCHANGED <<published, dead, held, faults>>
        /\ batch' = batch \/ batch' = [batch EXCEPT ![r] = {}]
    BY <1>2
    DEF Tick, Start, Stop, Reconnect, Exit, GoDown, Close, BrokerConfirms, BrokerRejects
  <2>2. \A q \in Relay : batch'[q] \subseteq batch[q]
    BY <2>1 DEF TypeOK
  <2> QED
    BY <2>1, <2>2, AloneStays
<1>3. ASSUME NEW r \in Relay, NEW i \in Record, Commit(r, i) \/ Wake(r, i)
      PROVE  AloneIsExact'
  <2>1. UNCHANGED <<published, dead, held, faults, batch>>
    BY <1>3 DEF Commit, Wake
  <2> QED
    BY <2>1, AloneStays
<1>4. ASSUME NEW r \in Relay, Failure(r)
      PROVE  AloneIsExact'
  <2>1. faults' = faults + 1
    BY <1>4
    DEF Failure, ClaimFails, MarkPublishedThrows, MarkThrows, Disconnect, Crash,
        Terminate, Fault
  <2> QED
    BY <2>1 DEF TypeOK, AloneIsExact
<1>5. ASSUME NEW r \in Relay, BrokerAccepts(r)
      PROVE  AloneIsExact'
  <2>1. /\ Current(r) \in batch[r]
        /\ held' = [held EXCEPT ![Current(r)] = @ + 1]
        /\ UNCHANGED <<published, dead, batch, faults>>
    BY <1>5, CurrentRow DEF BrokerAccepts, Busy
  <2>2. Settled' = Settled /\ dead \subseteq Settled
    BY <2>1 DEF Settled
  <2> QED
    BY <2>1, <2>2 DEF AloneIsExact, TypeOK
<1>6. ASSUME NEW r \in Relay, Claim(r)
      PROVE  AloneIsExact'
  <2> DEFINE claimed == Oldest(Pending, BatchSize)
  <2>1. claimed \in SUBSET Record /\ claimed \cap Settled = {}
    BY OldestRows DEF Pending, TypeOK, Settled
  <2>2. PICK returned : Proceed(r, claimed, returned)
    BY <1>6 DEF Claim
  <2> HIDE DEF claimed
  <2>3. batch' = [batch EXCEPT ![r] = claimed]
    BY <2>1, <2>2, ProceedShape
  <2>4. UNCHANGED <<published, dead, held, faults>>
    BY <1>6 DEF Claim
  <2> QED
    BY <2>1, <2>3, <2>4 DEF AloneIsExact, Settled, TypeOK
<1> QED
  BY <1>1, <1>2, <1>3, <1>4, <1>5, <1>6, AloneSettles
  DEF Next, Loop, Channel, Shutdown

\* With one relay and no fault, no consumer has what is given up.
THEOREM GivenUpIsUndelivered == Spec => []DeadMeansUndelivered
<1>1. Init => AloneIsExact
  BY DEF Init, AloneIsExact, Settled
<1>2. AloneIsExact => DeadMeansUndelivered
  BY DEF AloneIsExact, DeadMeansUndelivered
<1>3. TypeOK /\ BusyHasBatch /\ [Next]_vars => TypeOK' /\ BusyHasBatch'
  BY TypeStep
<1> QED
  BY <1>1, <1>2, <1>3, TypeInit, PaidInit, PaidStep, AloneStep, PTL DEF Spec

-----------------------------------------------------------------------------
(***************************************************************************)
(* Tries.  OutboxRepository has counted, with its claim, the call for each *)
(* row that waits in a batch.  PrismaOutboxStore has yet to count those    *)
(* under way; it loses one for a fault, of which a shutdown is one from    *)
(* SIGTERM on and loses its call only at the end.                          *)
(***************************************************************************)

\* The relays that have claimed row i and not come to it.
Waiting(i) == {r \in Relay : i \in batch[r] /\ Current(r) # i}

Terminated == {r \in Relay : life[r] = "term"}

ClaimsCover ==
  CountsOnClaim => \A i \in Record : tries[i] + Cardinality(Waiting(i)) <= attempts[i]

MarksCover ==
  ~CountsOnClaim =>
    \A i \in Record :
      tries[i] + Cardinality(Terminated) <= attempts[i] + faults + Cardinality(Trying(i))

Covered == ClaimsCover /\ MarksCover

\* A step of r, from what it does to r alone.
LEMMA CoveredKept ==
  ASSUME TypeOK, TypeOK', Covered, NEW r \in Relay,
         \A q \in Relay \ {r} :
           step'[q] = step[q] /\ batch'[q] = batch[q] /\ life'[q] = life[q],
         CountsOnClaim =>
           \A i \in Record : tries'[i] + One(r \in Waiting(i)') + attempts[i]
                              <= tries[i] + One(r \in Waiting(i)) + attempts'[i],
         ~CountsOnClaim =>
           \A i \in Record :
             tries'[i] + One(r \in Terminated') + attempts[i] + faults + One(r \in Trying(i))
               <= tries[i] + One(r \in Terminated) + attempts'[i] + faults'
                    + One(r \in Trying(i)')
  PROVE  Covered'
<1>1. \A q \in Relay \ {r} : Current(q)' = Current(q)
  BY DEF Current
<1>2. \A i : /\ Waiting(i) \in SUBSET Relay /\ Waiting(i)' \in SUBSET Relay
             /\ Waiting(i) \ {r} = Waiting(i)' \ {r}
  BY <1>1 DEF Waiting
<1>3. \A i : /\ Trying(i) \in SUBSET Relay /\ Trying(i)' \in SUBSET Relay
             /\ Trying(i) \ {r} = Trying(i)' \ {r}
  BY <1>1 DEF Trying, Busy
<1>4. /\ Terminated \in SUBSET Relay /\ Terminated' \in SUBSET Relay
      /\ Terminated \ {r} = Terminated' \ {r}
  BY DEF Terminated
<1>5. /\ faults \in Nat /\ faults' \in Nat
      /\ \A i \in Record : /\ tries[i] \in Nat /\ tries'[i] \in Nat
                           /\ attempts[i] \in Nat /\ attempts'[i] \in Nat
  BY DEF TypeOK
<1>6. ASSUME CountsOnClaim, NEW i \in Record
      PROVE  tries'[i] + Cardinality(Waiting(i)') <= attempts'[i]
  <2>1. /\ Cardinality(Waiting(i)) \in Nat /\ Cardinality(Waiting(i)') \in Nat
        /\ Cardinality(Waiting(i)') + One(r \in Waiting(i))
             = Cardinality(Waiting(i)) + One(r \in Waiting(i)')
    BY <1>2, CountMoves
  <2>2. /\ tries[i] + Cardinality(Waiting(i)) <= attempts[i]
        /\ tries'[i] + One(r \in Waiting(i)') + attempts[i]
             <= tries[i] + One(r \in Waiting(i)) + attempts'[i]
    BY <1>6 DEF Covered, ClaimsCover
  <2>3. One(r \in Waiting(i)) \in Nat /\ One(r \in Waiting(i)') \in Nat
    BY DEF One
  <2> QED
    BY <1>5, <2>1, <2>2, <2>3
<1>7. ASSUME ~CountsOnClaim, NEW i \in Record
      PROVE  tries'[i] + Cardinality(Terminated')
               <= attempts'[i] + faults' + Cardinality(Trying(i)')
  <2>1. /\ Cardinality(Trying(i)) \in Nat /\ Cardinality(Trying(i)') \in Nat
        /\ Cardinality(Trying(i)') + One(r \in Trying(i))
             = Cardinality(Trying(i)) + One(r \in Trying(i)')
    BY <1>3, CountMoves
  <2>2. /\ Cardinality(Terminated) \in Nat /\ Cardinality(Terminated') \in Nat
        /\ Cardinality(Terminated') + One(r \in Terminated)
             = Cardinality(Terminated) + One(r \in Terminated')
    BY <1>4, CountMoves
  <2>3. /\ tries[i] + Cardinality(Terminated)
             <= attempts[i] + faults + Cardinality(Trying(i))
        /\ tries'[i] + One(r \in Terminated') + attempts[i] + faults + One(r \in Trying(i))
             <= tries[i] + One(r \in Terminated) + attempts'[i] + faults'
                  + One(r \in Trying(i)')
    BY <1>7 DEF Covered, MarksCover
  <2>4. /\ One(r \in Trying(i)) \in Nat /\ One(r \in Trying(i)') \in Nat
        /\ One(r \in Terminated) \in Nat /\ One(r \in Terminated') \in Nat
    BY DEF One
  <2> QED
    BY <1>5, <2>1, <2>2, <2>3, <2>4
<1> QED
  BY <1>6, <1>7 DEF Covered, ClaimsCover, MarksCover

\* A call of publishRecord moves its row from the waiting to the tried.
LEMMA ProceedTries ==
  ASSUME TypeOK, NEW r \in Relay, NEW rest \in SUBSET Record, NEW returned,
         Proceed(r, rest, returned)
  PROVE  \A i \in Record :
           /\ tries'[i] + One(r \in Waiting(i)') = tries[i] + One(i \in rest)
           /\ tries'[i] = tries[i] + One(r \in Trying(i)')
<1>1. CASE rest = {}
  <2>1. /\ batch' = [batch EXCEPT ![r] = {}] /\ tries' = tries
        /\ step' = [step EXCEPT ![r] = "idle"]
    BY <1>1, ProceedShape
  <2>2. batch'[r] = {} /\ step'[r] = "idle"
    BY <2>1 DEF TypeOK
  <2>3. \A i : r \notin Waiting(i)' /\ r \notin Trying(i)'
    BY <2>2 DEF Waiting, Trying, Busy
  <2> QED
    BY <1>1, <2>1, <2>3 DEF One, TypeOK
<1>2. CASE rest # {}
  <2> DEFINE f == First(rest)
  <2>1. /\ f \in rest /\ f \in Record
        /\ batch' = [batch EXCEPT ![r] = rest]
        /\ tries' = [tries EXCEPT ![f] = @ + 1]
        /\ \E s \in {"sending", "failing", "dying"} : step' = [step EXCEPT ![r] = s]
    BY <1>2, ProceedShape
  <2>2. batch'[r] = rest /\ step'[r] \in {"sending", "failing", "dying"}
    BY <2>1 DEF TypeOK
  <2>3. Current(r)' = f
    BY <2>2 DEF Current
  <2> HIDE DEF f
  <2>4. \A i : /\ r \in Waiting(i)' <=> i \in rest /\ i # f
               /\ r \in Trying(i)' <=> i = f
    BY <2>2, <2>3 DEF Waiting, Trying, Busy
  <2>5. \A i \in Record : tries[i] \in Nat /\ tries'[i] = tries[i] + One(i = f)
    BY <2>1 DEF TypeOK, One
  <2> QED
    BY <2>1, <2>4, <2>5 DEF One
<1> QED
  BY <1>1, <1>2

LEMMA CoveredQuiet ==
  ASSUME TypeOK, TypeOK', Covered, NEW r \in Relay,
         UNCHANGED <<batch, tries>>,
         \A q \in Relay \ {r} : step'[q] = step[q] /\ life'[q] = life[q],
         Busy(r)' <=> Busy(r),
         \A i \in Record : attempts'[i] >= attempts[i],
         faults' >= faults,
         r \in Terminated' => r \in Terminated \/ faults' > faults
  PROVE  Covered'
<1>1. /\ \A i : r \in Waiting(i)' <=> r \in Waiting(i)
      /\ \A i : r \in Trying(i)' <=> r \in Trying(i)
  BY DEF Waiting, Trying, Current
<1>2. /\ faults \in Nat /\ faults' \in Nat
      /\ \A i \in Record : /\ tries[i] \in Nat /\ tries'[i] = tries[i]
                           /\ attempts[i] \in Nat /\ attempts'[i] \in Nat
  BY DEF TypeOK
<1>3. One(r \in Terminated') + faults <= One(r \in Terminated) + faults'
  <2>1. One(r \in Terminated') \in {0, 1} /\ One(r \in Terminated) \in {0, 1}
    BY DEF One
  <2>2. One(r \in Terminated') <= One(r \in Terminated) \/ faults' > faults
    BY DEF One
  <2> QED
    BY <1>2, <2>1, <2>2
<1>4. \A i : /\ One(r \in Waiting(i)') = One(r \in Waiting(i))
             /\ One(r \in Trying(i)') = One(r \in Trying(i))
             /\ One(r \in Waiting(i)) \in Nat /\ One(r \in Trying(i)) \in Nat
  BY <1>1 DEF One
<1>5. One(r \in Terminated') \in Nat /\ One(r \in Terminated) \in Nat
  BY DEF One
<1>6. \A i \in Record :
        /\ tries'[i] + One(r \in Waiting(i)') + attempts[i]
             <= tries[i] + One(r \in Waiting(i)) + attempts'[i]
        /\ tries'[i] + One(r \in Terminated') + attempts[i] + faults + One(r \in Trying(i))
             <= tries[i] + One(r \in Terminated) + attempts'[i] + faults'
                  + One(r \in Trying(i)')
  BY <1>2, <1>3, <1>4, <1>5
<1>7. \A q \in Relay \ {r} :
        step'[q] = step[q] /\ batch'[q] = batch[q] /\ life'[q] = life[q]
  OBVIOUS
<1> QED
  BY <1>6, <1>7, CoveredKept

\* The loop of r goes on: what it comes to was waiting, or is counted by the
\* claim; what it leaves is counted by the mark.
LEMMA CoveredProceed ==
  ASSUME TypeOK, TypeOK', Covered, NEW r \in Relay,
         NEW rest \in SUBSET Record, NEW returned, Proceed(r, rest, returned),
         UNCHANGED <<life, faults>>,
         CountsOnClaim =>
           \A i \in Record : One(i \in rest) + attempts[i]
                              <= One(r \in Waiting(i)) + attempts'[i],
         ~CountsOnClaim =>
           \A i \in Record : attempts[i] + One(r \in Trying(i)) <= attempts'[i]
  PROVE  Covered'
<1>1. \A q \in Relay \ {r} :
        step'[q] = step[q] /\ batch'[q] = batch[q] /\ life'[q] = life[q]
  <2>1. /\ batch' = [batch EXCEPT ![r] = rest]
        /\ \E s \in {"idle", "sending", "failing", "dying"} :
             step' = [step EXCEPT ![r] = s]
    BY ProceedShape
  <2> QED
    BY <2>1 DEF TypeOK
<1>2. \A i \in Record :
        /\ tries'[i] + One(r \in Waiting(i)') = tries[i] + One(i \in rest)
        /\ tries'[i] = tries[i] + One(r \in Trying(i)')
  BY ProceedTries
<1>3. One(r \in Terminated') = One(r \in Terminated) /\ One(r \in Terminated) \in Nat
  BY DEF Terminated, One
<1>4. /\ faults \in Nat /\ faults' = faults
      /\ \A i \in Record : /\ tries[i] \in Nat /\ tries'[i] \in Nat
                           /\ attempts[i] \in Nat /\ attempts'[i] \in Nat
  BY DEF TypeOK
<1>5. \A i : /\ One(r \in Waiting(i)) \in Nat /\ One(r \in Waiting(i)') \in Nat
             /\ One(r \in Trying(i)) \in Nat /\ One(r \in Trying(i)') \in Nat
             /\ One(i \in rest) \in Nat
  BY DEF One
<1>6. ASSUME CountsOnClaim, NEW i \in Record
      PROVE  tries'[i] + One(r \in Waiting(i)') + attempts[i]
               <= tries[i] + One(r \in Waiting(i)) + attempts'[i]
  <2>1. One(i \in rest) + attempts[i] <= One(r \in Waiting(i)) + attempts'[i]
    BY <1>6
  <2> QED
    BY <1>2, <1>4, <1>5, <2>1
<1>7. ASSUME ~CountsOnClaim, NEW i \in Record
      PROVE  tries'[i] + One(r \in Terminated') + attempts[i] + faults + One(r \in Trying(i))
               <= tries[i] + One(r \in Terminated) + attempts'[i] + faults'
                    + One(r \in Trying(i)')
  <2>1. attempts[i] + One(r \in Trying(i)) <= attempts'[i]
    BY <1>7
  <2> QED
    BY <1>2, <1>3, <1>4, <1>5, <2>1
<1> QED
  BY <1>1, <1>6, <1>7, CoveredKept

\* The tick of r, or its process, ends: a call it does not count costs a fault.
LEMMA CoveredEnds ==
  ASSUME TypeOK, TypeOK', Covered, NEW r \in Relay,
         step' = [step EXCEPT ![r] = "idle"],
         batch' = [batch EXCEPT ![r] = {}],
         UNCHANGED tries,
         \A q \in Relay \ {r} : life'[q] = life[q],
         \A i \in Record : attempts'[i] >= attempts[i],
         faults' >= faults,
         r \in Terminated' => r \in Terminated,
         faults' > faults \/ (r \in Terminated /\ r \notin Terminated')
  PROVE  Covered'
<1>1. /\ batch'[r] = {} /\ step'[r] = "idle"
      /\ \A q \in Relay \ {r} :
           step'[q] = step[q] /\ batch'[q] = batch[q] /\ life'[q] = life[q]
  BY DEF TypeOK
<1>2. \A i : One(r \in Waiting(i)') = 0 /\ One(r \in Trying(i)') = 0
  BY <1>1 DEF Waiting, Trying, Busy, One
<1>3. \A i : One(r \in Waiting(i)) \in {0, 1} /\ One(r \in Trying(i)) \in {0, 1}
  BY DEF One
<1>4. /\ faults \in Nat /\ faults' \in Nat
      /\ \A i \in Record : /\ tries[i] \in Nat /\ tries'[i] = tries[i]
                           /\ attempts[i] \in Nat /\ attempts'[i] \in Nat
  BY DEF TypeOK
<1>5. One(r \in Terminated') + faults + 1 <= One(r \in Terminated) + faults'
  <2>1. One(r \in Terminated') \in {0, 1} /\ One(r \in Terminated) \in {0, 1}
    BY DEF One
  <2>2. /\ One(r \in Terminated') <= One(r \in Terminated)
        /\ faults' > faults \/ One(r \in Terminated') + 1 = One(r \in Terminated)
    BY DEF One
  <2> QED
    BY <1>4, <2>1, <2>2
<1>6. One(r \in Terminated') \in Nat /\ One(r \in Terminated) \in Nat
  BY DEF One
<1>7. \A i \in Record :
        /\ tries'[i] + One(r \in Waiting(i)') + attempts[i]
             <= tries[i] + One(r \in Waiting(i)) + attempts'[i]
        /\ tries'[i] + One(r \in Terminated') + attempts[i] + faults + One(r \in Trying(i))
             <= tries[i] + One(r \in Terminated) + attempts'[i] + faults'
                  + One(r \in Trying(i)')
  BY <1>2, <1>3, <1>4, <1>5, <1>6
<1> QED
  BY <1>1, <1>7, CoveredKept

LEMMA CountedGrows ==
  ASSUME TypeOK, NEW i \in Record, attempts' = attempts \/ attempts' = Counted(i)
  PROVE  \A j \in Record : attempts'[j] >= attempts[j]
BY DEF Counted, TypeOK

LEMMA CoveredStep == TypeOK /\ BusyHasBatch /\ Covered /\ [Next]_vars => Covered'
<1> SUFFICES ASSUME TypeOK, BusyHasBatch, Covered, [Next]_vars
             PROVE  Covered'
  OBVIOUS
<1> USE DEF table, process, client, history
<1>0. TypeOK'
  BY TypeStep
<1>1. CASE UNCHANGED vars
  BY <1>1
  DEF vars, Covered, ClaimsCover, MarksCover, Waiting, Trying, Terminated, Busy, Current
<1>2. ASSUME NEW r \in Relay, Tick(r) \/ Start(r) \/ Stop(r) \/ Terminate(r) \/ Reconnect(r)
      PROVE  Covered'
  <2>1. /\ UNCHANGED <<batch, tries, attempts>>
        /\ \A q \in Relay \ {r} : step'[q] = step[q] /\ life'[q] = life[q]
    BY <1>2 DEF Tick, Start, Stop, Terminate, Reconnect, TypeOK
  <2>2. step'[r] = step[r] \/ (step[r] = "idle" /\ step'[r] = "claiming")
    BY <1>2 DEF Tick, Start, Stop, Terminate, Reconnect, TypeOK, Running
  <2>3. \/ faults' = faults /\ (life'[r] = life[r] \/ life'[r] = "up")
        \/ faults' = faults + 1
    BY <1>2 DEF Tick, Start, Stop, Terminate, Reconnect, TypeOK, Fault
  <2>4. faults' >= faults /\ (faults' = faults + 1 => faults' > faults)
    BY <2>3 DEF TypeOK
  <2>5. Busy(r)' <=> Busy(r)
    BY <2>2 DEF Busy
  <2>6. r \in Terminated' => r \in Terminated \/ faults' > faults
    BY <2>3, <2>4 DEF Terminated
  <2>7. \A i \in Record : attempts'[i] >= attempts[i]
    BY <2>1 DEF TypeOK
  <2> QED
    BY <1>0, <2>1, <2>4, <2>5, <2>6, <2>7, CoveredQuiet
<1>3. ASSUME NEW r \in Relay, NEW i \in Record, Commit(r, i) \/ Wake(r, i)
      PROVE  Covered'
  <2>1. UNCHANGED <<batch, tries, attempts, step, life, faults>>
    BY <1>3 DEF Commit, Wake
  <2>2. faults' >= faults /\ \A j \in Record : attempts'[j] >= attempts[j]
    BY <2>1 DEF TypeOK
  <2> QED
    BY <1>0, <2>1, <2>2, CoveredQuiet DEF Busy, Terminated
<1>4. ASSUME NEW r \in Relay,
             BrokerAccepts(r) \/ BrokerConfirms(r) \/ BrokerRejects(r)
               \/ Disconnect(r) \/ Close(r) \/ MarkPublishedThrows(r)
      PROVE  Covered'
  <2>1. /\ UNCHANGED <<batch, tries, life>>
        /\ \A q \in Relay \ {r} : step'[q] = step[q]
    BY <1>4
    DEF BrokerAccepts, BrokerConfirms, BrokerRejects, Disconnect, Close,
        MarkPublishedThrows, TypeOK
  <2>2. FailStep(seen[r][Current(r)]) \in {"failing", "dying"}
    BY DEF FailStep
  <2>3. Busy(r)' <=> Busy(r)
    BY <1>4, <2>2
    DEF BrokerAccepts, BrokerConfirms, BrokerRejects, Disconnect, Close,
        MarkPublishedThrows, TypeOK, Busy
  <2>4. faults' >= faults
    BY <1>4
    DEF BrokerAccepts, BrokerConfirms, BrokerRejects, Disconnect, Close,
        MarkPublishedThrows, Fault, TypeOK
  <2>5. \A i \in Record : attempts'[i] >= attempts[i]
    <3>1. CASE attempts' = attempts
      BY <3>1 DEF TypeOK
    <3>2. CASE attempts' # attempts
      <4>1. step[r] = "marking" /\ attempts' = Counted(Current(r))
        BY <1>4, <3>2
        DEF BrokerAccepts, BrokerConfirms, BrokerRejects, Disconnect, Close,
            MarkPublishedThrows
      <4>2. Current(r) \in Record
        BY <4>1, CurrentRow DEF Busy
      <4> QED
        BY <4>1, <4>2, CountedGrows
    <3> QED
      BY <3>1, <3>2
  <2>6. r \in Terminated' => r \in Terminated
    BY <2>1 DEF Terminated
  <2> QED
    BY <1>0, <2>1, <2>3, <2>4, <2>5, <2>6, CoveredQuiet
<1>5. ASSUME NEW r \in Relay, Claim(r)
      PROVE  Covered'
  <2> DEFINE claimed == Oldest(Pending, BatchSize)
  <2>1. claimed \in SUBSET Record
    BY OldestRows DEF Pending, TypeOK
  <2>2. PICK returned : Proceed(r, claimed, returned)
    BY <1>5 DEF Claim
  <2>3. /\ attempts' = CountedByClaim(claimed) /\ step[r] = "claiming"
        /\ UNCHANGED <<life, faults>>
    BY <1>5 DEF Claim
  <2> HIDE DEF claimed
  <2>4. \A i \in Record :
          /\ CountsOnClaim => attempts'[i] = attempts[i] + One(i \in claimed)
          /\ ~CountsOnClaim => attempts'[i] = attempts[i]
    BY <2>3 DEF CountedByClaim, TypeOK, One
  <2>5. \A i : One(r \in Trying(i)) = 0
    BY <2>3 DEF Trying, Busy, One
  <2>6. \A i : One(r \in Waiting(i)) \in Nat /\ One(i \in claimed) \in Nat
    BY DEF One
  <2>7. \A i \in Record : attempts[i] \in Nat /\ attempts'[i] \in Nat
    BY <1>0 DEF TypeOK
  <2>8. CountsOnClaim =>
          \A i \in Record : One(i \in claimed) + attempts[i]
                             <= One(r \in Waiting(i)) + attempts'[i]
    BY <2>4, <2>6, <2>7
  <2>9. ~CountsOnClaim =>
          \A i \in Record : attempts[i] + One(r \in Trying(i)) <= attempts'[i]
    BY <2>4, <2>5, <2>7
  <2> QED
    BY <1>0, <2>1, <2>2, <2>3, <2>8, <2>9, CoveredProceed
<1>6. ASSUME NEW r \in Relay, MarkPublished(r) \/ MarkFailed(r) \/ MarkDead(r)
      PROVE  Covered'
  <2> DEFINE rest == batch[r] \ {Current(r)}
  <2>1. /\ Proceed(r, rest, seen[r]) /\ Busy(r)
        /\ attempts' = Counted(Current(r)) /\ UNCHANGED <<life, faults>>
    BY <1>6 DEF MarkPublished, MarkFailed, MarkDead, Busy
  <2>2. rest \in SUBSET Record
    BY DEF TypeOK
  <2>3. \A i : One(i \in rest) = One(r \in Waiting(i)) /\ One(i \in rest) \in Nat
    BY DEF Waiting, One
  <2>4. \A i \in Record : attempts[i] \in Nat /\ attempts'[i] \in Nat
    BY <1>0 DEF TypeOK
  <2>5. CountsOnClaim => attempts' = attempts
    BY <2>1 DEF Counted
  <2> HIDE DEF rest
  <2>6. CountsOnClaim =>
          \A i \in Record : One(i \in rest) + attempts[i]
                             <= One(r \in Waiting(i)) + attempts'[i]
    BY <2>3, <2>4, <2>5
  <2>7. ~CountsOnClaim =>
          \A i \in Record : attempts[i] + One(r \in Trying(i)) <= attempts'[i]
    BY <2>1, <2>4, MarkCounts
  <2> QED
    BY <1>0, <2>1, <2>2, <2>6, <2>7, CoveredProceed
<1>7. ASSUME NEW r \in Relay,
             ClaimFails(r) \/ MarkThrows(r) \/ Crash(r) \/ Exit(r)
      PROVE  Covered'
  <2>1. /\ step' = [step EXCEPT ![r] = "idle"]
        /\ batch' = [batch EXCEPT ![r] = {}]
        /\ UNCHANGED tries
    BY <1>7 DEF ClaimFails, MarkThrows, Crash, Exit, GoDown, EndTick
  <2>2. /\ \A q \in Relay \ {r} : life'[q] = life[q]
        /\ r \in Terminated' => r \in Terminated
    BY <1>7 DEF ClaimFails, MarkThrows, Crash, Exit, GoDown, TypeOK, Terminated
  <2>3. /\ faults' >= faults
        /\ faults' > faults \/ (r \in Terminated /\ r \notin Terminated')
    BY <1>7
    DEF ClaimFails, MarkThrows, Crash, Exit, GoDown, Fault, TypeOK, Terminated
  <2>4. \A i \in Record : attempts'[i] >= attempts[i]
    <3>1. CASE attempts' = attempts
      BY <3>1 DEF TypeOK
    <3>2. CASE attempts' # attempts
      <4>1. step[r] \in {"failing", "dying"} /\ attempts' = Counted(Current(r))
        BY <1>7, <3>2 DEF ClaimFails, MarkThrows, Crash, Exit, GoDown
      <4>2. Current(r) \in Record
        BY <4>1, CurrentRow DEF Busy
      <4> QED
        BY <4>1, <4>2, CountedGrows
    <3> QED
      BY <3>1, <3>2
  <2> QED
    BY <1>0, <2>1, <2>2, <2>3, <2>4, CoveredEnds
<1> QED
  BY <1>1, <1>2, <1>3, <1>4, <1>5, <1>6, <1>7
  DEF Next, Loop, Channel, Shutdown, Failure

\* No call of publishRecord escapes the attempts column, with either store.
THEOREM TriesCount == Spec => []TriesAreCounted
<1>1. Init => Covered
  <2> SUFFICES ASSUME Init
               PROVE  Covered
    OBVIOUS
  <2>1. Terminated = {} /\ \A i : Waiting(i) = {} /\ Trying(i) = {}
    BY DEF Init, Terminated, Waiting, Trying, Busy
  <2>2. \A i \in Record : tries[i] = 0 /\ attempts[i] = 0 /\ faults = 0
    BY DEF Init, Zeros
  <2> QED
    BY <2>1, <2>2, FS_EmptySet DEF Covered, ClaimsCover, MarksCover
<1>2. TypeOK /\ BusyHasBatch /\ Covered => TriesAreCounted
  <2> SUFFICES ASSUME TypeOK, BusyHasBatch, Covered, NEW i \in Record
               PROVE  tries[i] <= attempts[i] +
                        (IF CountsOnClaim THEN 0
                         ELSE faults + Cardinality({r \in Relay : batch[r] # {} /\ Current(r) = i}))
    BY DEF TriesAreCounted
  <2> DEFINE running == {r \in Relay : batch[r] # {} /\ Current(r) = i}
  <2>1. tries[i] \in Nat /\ attempts[i] \in Nat /\ faults \in Nat
    BY DEF TypeOK
  <2>2. CASE CountsOnClaim
    <3>1. tries[i] + Cardinality(Waiting(i)) <= attempts[i]
      BY <2>2 DEF Covered, ClaimsCover
    <3>2. Cardinality(Waiting(i)) \in Nat
      BY RelaysCount DEF Waiting
    <3> QED
      BY <2>1, <2>2, <3>1, <3>2
  <2>3. CASE ~CountsOnClaim
    <3>1. tries[i] + Cardinality(Terminated) <= attempts[i] + faults + Cardinality(Trying(i))
      BY <2>3 DEF Covered, MarksCover
    <3>2. Trying(i) \subseteq running /\ running \in SUBSET Relay
      BY DEF Trying, BusyHasBatch
    <3>3. /\ IsFiniteSet(running) /\ Cardinality(running) \in Nat
          /\ Cardinality(Trying(i)) \in Nat
          /\ Cardinality(Trying(i)) <= Cardinality(running)
      BY <3>2, RelaysCount, FS_Subset, FS_CardinalityType
    <3>4. Cardinality(Terminated) \in Nat
      BY RelaysCount DEF Terminated
    <3> HIDE DEF running
    <3>5. tries[i] <= attempts[i] + (faults + Cardinality(running))
      BY <2>1, <3>1, <3>3, <3>4
    <3> QED
      BY <2>3, <3>5 DEF running
  <2> QED
    BY <2>2, <2>3
<1>3. TypeOK /\ BusyHasBatch /\ [Next]_vars => TypeOK' /\ BusyHasBatch'
  BY TypeStep
<1> QED
  BY <1>1, <1>2, <1>3, TypeInit, CoveredStep, PTL DEF Spec
=============================================================================
