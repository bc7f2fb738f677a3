------------------------- MODULE ShipmentQuery_proofs -------------------------
(***************************************************************************)
(* Theorems about ShipmentQuery: what the circuit breaker and the answers  *)
(* of GET /orders/:id/shipment promise for any queries beside any updates, *)
(* and that what Shipments promises stays true beside the queries.         *)
(***************************************************************************)
EXTENDS ShipmentQuery, Shipments_proofs

-----------------------------------------------------------------------------
(***************************************************************************)
(* The invariant.                                                          *)
(***************************************************************************)

InFlight(q) == fetch[q] \in {"sent", "read"}

\* A half-open breaker waits for no call but its probe.
OnlyProbeInFlight ==
  breaker = "halfOpen" => \A q \in Query : InFlight(q) => q = probe

QuerySound ==
  /\ Sound /\ QueryTypeOK
  /\ OnlyProbeInFlight /\ AnswersAreExplained /\ MissingOpensNothing

-----------------------------------------------------------------------------
\* Failures of the read path touch faults alone, which Sound says little of.
LEMMA SoundBesideFaults ==
  ASSUME Sound, faults' \in 0 .. MaxFaults,
         UNCHANGED <<shipment, events, outbox, processed, step, inputs, row,
                     clock, calls>>
  PROVE  Sound'
BY DEF inputs, Sound, TypeOK, ClockCounted, Unstamped, Transactions, RowMatches,
       OneHolder, Holds, HolderIsYoungest, InThePast, ReadWasAnnounced, Story,
       LastAnnouncedIsStatus, PreviousWasAnnounced, StatusHasEvent, RowsOf

LEMMA QueryFault ==
  ASSUME Sound, Fault
  PROVE  faults' \in 0 .. MaxFaults /\ faults' > 0
BY ShipmentAssumption DEF Sound, TypeOK, Fault

\* Neither events nor faults are taken back.
LEMMA ShipmentsGrow ==
  ASSUME Sound, [Next]_vars
  PROVE  events \subseteq events' /\ faults' >= faults
<1>1. events \subseteq events'
  BY OnlyCommitsWrite DEF Next, vars, CreatePendingShipment, CreateShipment, Committed
<1>2. faults' >= faults
  BY DEF Next, vars, CreatePendingShipment, UpdateStatus, Enqueue, Commit, Wake,
         Throws, Find, Fault, Sound, TypeOK
<1> QED
  BY <1>1, <1>2

LEMMA TimelineGrows ==
  ASSUME events \subseteq events', NEW o \in Order
  PROVE  Timeline(o) \subseteq Timeline(o)'
BY DEF Timeline

\* Whatever a breaker counts decides it, and it has no probe any more.
LEMMA CountDecides ==
  ASSUME QueryTypeOK, NEW status, Count(status)
  PROVE  breaker' \in {"open", "closed"} /\ probe' = NoQuery
BY DEF Count, QueryTypeOK

\* An answer of tracking-service opens no breaker.
LEMMA AnswerCloses ==
  ASSUME QueryTypeOK, NEW q \in Query, Count(StatusCode(q))
  PROVE  breaker' # "closed" => breaker # "closed"
BY DEF Count, StatusCode, ErrorFilter, QueryTypeOK

-----------------------------------------------------------------------------
\* A step of a query that leaves the tables alone and, of the other queries,
\* touches nothing.
LEMMA QueryMoves ==
  ASSUME QueryTypeOK, NEW q \in Query, NEW from, NEW to, Moves(q, from, to)
  PROVE  /\ fetch[q] \in from /\ fetch'[q] = to
         /\ \A p \in Query \ {q} : fetch'[p] = fetch[p]
BY DEF Moves, QueryTypeOK

LEMMA Forgets ==
  ASSUME QueryTypeOK, NEW q \in Query, Forget(q)
  PROVE  /\ asked' \in [Query -> Order] /\ seen' \in [Query -> Status \cup {Absent}]
         /\ \A p \in Query \ {q} : asked'[p] = asked[p] /\ seen'[p] = seen[p]
BY SomeOrderIsOne DEF Forget, QueryTypeOK

\* A call that ends, as an answer, a failure or a timeout, and is counted.
LEMMA CallEnds ==
  ASSUME QuerySound, NEW q \in Query, NEW to \in {"none", "late"},
         Moves(q, {"sent", "read"}, to), Forget(q), NEW status, Count(status),
         Sound', UNCHANGED events,
         breaker' # "closed" => faults' > 0
  PROVE  QuerySound'
<1>1. /\ fetch'[q] = to /\ \A p \in Query \ {q} : fetch'[p] = fetch[p]
  BY QueryMoves DEF QuerySound
<1>2. breaker' \in {"open", "closed"} /\ probe' = NoQuery
  BY CountDecides DEF QuerySound
<1>3. QueryTypeOK'
  BY <1>2, Forgets DEF QuerySound, QueryTypeOK, Moves
<1>4. AnswersAreExplained'
  BY <1>1, Forgets DEF QuerySound, AnswersAreExplained, Timeline
<1> QED
  BY <1>2, <1>3, <1>4 DEF QuerySound, OnlyProbeInFlight, MissingOpensNothing

LEMMA QueryStep == QuerySound /\ [QueryNext]_allVars => QuerySound'
<1> SUFFICES ASSUME QuerySound, [QueryNext]_allVars
             PROVE  QuerySound'
  OBVIOUS
<1>1. ASSUME [Next]_vars, UNCHANGED queryVars
      PROVE  QuerySound'
  <2>1. Sound' /\ events \subseteq events' /\ faults' >= faults
    BY <1>1, SoundStep, ShipmentsGrow DEF QuerySound
  <2>2. QueryTypeOK' /\ OnlyProbeInFlight'
    BY <1>1 DEF queryVars, QuerySound, QueryTypeOK, OnlyProbeInFlight, InFlight
  <2>3. AnswersAreExplained'
    BY <1>1, <2>1, TimelineGrows
    DEF queryVars, QuerySound, QueryTypeOK, AnswersAreExplained
  <2>4. MissingOpensNothing'
    BY <1>1, <2>1 DEF queryVars, QuerySound, MissingOpensNothing, Sound, TypeOK
  <2> QED
    BY <2>1, <2>2, <2>3, <2>4 DEF QuerySound
<1>2. ASSUME UNCHANGED vars
      PROVE  Sound' /\ UNCHANGED <<events, shipment, faults>>
  BY <1>2, SoundStep DEF vars, QuerySound
<1>3. ASSUME NEW q \in Query, NEW o \in Order, Fire(q, o)
      PROVE  QuerySound'
  <2>1. /\ fetch[q] = "none" /\ fetch'[q] = "sent"
        /\ \A p \in Query \ {q} : fetch'[p] = fetch[p]
    BY <1>3, QueryMoves DEF Fire, QuerySound
  <2>2. QueryTypeOK'
    BY <1>3, <2>1, QueryAssumption DEF Fire, Moves, QuerySound, QueryTypeOK
  <2>3. OnlyProbeInFlight'
    BY <1>3, <2>1, QueryAssumption
    DEF Fire, QuerySound, OnlyProbeInFlight, InFlight
  <2>4. AnswersAreExplained'
    BY <1>2, <1>3, <2>1
    DEF Fire, QuerySound, QueryTypeOK, AnswersAreExplained, Timeline
  <2> QED
    BY <1>2, <1>3, <2>2, <2>3, <2>4 DEF Fire, QuerySound, MissingOpensNothing
<1>4. ASSUME NEW q \in Query, Read(q)
      PROVE  QuerySound'
  <2>1. /\ fetch[q] = "sent" /\ fetch'[q] = "read"
        /\ \A p \in Query \ {q} : fetch'[p] = fetch[p]
    BY <1>4, QueryMoves DEF Read, QuerySound
  <2>2. asked[q] \in Order /\ shipment[asked[q]] \in Status \cup {Absent}
    BY DEF QuerySound, QueryTypeOK, Sound, TypeOK
  <2>3. QueryTypeOK'
    BY <1>4, <2>1, <2>2 DEF Read, Moves, QuerySound, QueryTypeOK
  <2>4. OnlyProbeInFlight'
    BY <1>4, <2>1 DEF Read, QuerySound, OnlyProbeInFlight, InFlight
  <2>5. shipment[asked[q]] # Absent => shipment[asked[q]] \in Timeline(asked[q])
    BY <2>2 DEF QuerySound, Sound, Story, StatusHasEvent, Timeline
  <2>6. AnswersAreExplained'
    BY <1>2, <1>4, <2>1, <2>5
    DEF Read, QuerySound, QueryTypeOK, AnswersAreExplained, Timeline
  <2> QED
    BY <1>2, <1>4, <2>3, <2>4, <2>6 DEF Read, QuerySound, MissingOpensNothing
<1>5. ASSUME NEW q \in Query, Answer(q)
      PROVE  QuerySound'
  <2>1. breaker' # "closed" => faults' > 0
    BY <1>2, <1>5, AnswerCloses DEF Answer, QuerySound, MissingOpensNothing
  <2>2. Moves(q, {"sent", "read"}, "none")
    BY <1>5 DEF Answer, Moves
  <2> QED
    BY <1>2, <1>5, <2>1, <2>2, CallEnds DEF Answer
<1>6. ASSUME NEW q \in Query, FetchFails(q) \/ TimeOut(q)
      PROVE  QuerySound'
  <2>1. faults' \in 0 .. MaxFaults /\ faults' > 0
    BY <1>6, QueryFault DEF FetchFails, TimeOut, QuerySound
  <2>2. Sound' /\ UNCHANGED events
    BY <1>6, <2>1, SoundBesideFaults DEF FetchFails, TimeOut, QuerySound
  <2>3. /\ \E to \in {"none", "late"} : Moves(q, {"sent", "read"}, to)
        /\ Forget(q)
        /\ \E status \in {NoStatus, 500} : Count(status)
    BY <1>6 DEF FetchFails, TimeOut
  <2> QED
    BY <2>1, <2>2, <2>3, CallEnds
<1>7. ASSUME NEW q \in Query, LateAnswer(q)
      PROVE  QuerySound'
  <2>1. /\ fetch[q] = "late" /\ fetch'[q] = "none"
        /\ \A p \in Query \ {q} : fetch'[p] = fetch[p]
    BY <1>7, QueryMoves DEF LateAnswer, QuerySound
  <2>2. QueryTypeOK' /\ OnlyProbeInFlight'
    BY <1>7, <2>1
    DEF LateAnswer, Moves, QuerySound, QueryTypeOK, OnlyProbeInFlight, InFlight
  <2>3. AnswersAreExplained'
    BY <1>2, <1>7, <2>1 DEF LateAnswer, QuerySound, AnswersAreExplained, Timeline
  <2> QED
    BY <1>2, <1>7, <2>2, <2>3 DEF LateAnswer, QuerySound, MissingOpensNothing
<1>8. ASSUME HalfOpen
      PROVE  QuerySound'
  <2>1. \A q \in Query : fetch[q] \in {"none", "late"}
    BY <1>8 DEF HalfOpen, Options
  <2>2. QueryTypeOK' /\ OnlyProbeInFlight'
    BY <1>8, <2>1 DEF HalfOpen, QuerySound, QueryTypeOK, OnlyProbeInFlight, InFlight
  <2>3. AnswersAreExplained'
    BY <1>2, <1>8 DEF HalfOpen, QuerySound, AnswersAreExplained, Timeline
  <2> QED
    BY <1>2, <1>8, <2>2, <2>3 DEF HalfOpen, QuerySound, MissingOpensNothing
<1> QED
  BY <1>1, <1>3, <1>4, <1>5, <1>6, <1>7, <1>8 DEF QueryNext, allVars

LEMMA QueryInitSound == QueryInit => QuerySound
BY SoundInit, SomeOrderIsOne, QueryAssumption
DEF QueryInit, QuerySound, QueryTypeOK, OnlyProbeInFlight, InFlight,
    AnswersAreExplained, MissingOpensNothing

\* Only the end of a call in flight moves a half-open breaker on.
LEMMA ProbeStep ==
  ASSUME QuerySound, [QueryNext]_allVars, breaker = "halfOpen", breaker' # "halfOpen"
  PROVE  probe # NoQuery /\ fetch'[probe] # fetch[probe]
<1>1. PICK q \in Query :
        \E to \in {"none", "late"} : Moves(q, {"sent", "read"}, to)
  <2>1. PICK q \in Query : Answer(q) \/ FetchFails(q) \/ TimeOut(q)
    BY DEF QueryNext, allVars, queryVars, HalfOpen, Fire, Read, LateAnswer
  <2> QED
    BY <2>1 DEF Answer, FetchFails, TimeOut, Moves
<1>2. q = probe
  BY <1>1 DEF QuerySound, OnlyProbeInFlight, InFlight, Moves
<1> QED
  BY <1>1, <1>2, QueryMoves, QueryAssumption DEF QuerySound

-----------------------------------------------------------------------------
(***************************************************************************)
(* The theorems.                                                           *)
(***************************************************************************)

\* What Shipments promises of tables and announcements stays true while
\* customers ask, and calls of order-service fail.
THEOREM QueriesDisturbNothing ==
  QuerySpec => /\ [](TypeOK /\ LastAnnouncedIsStatus /\ PreviousWasAnnounced)
               /\ VisibleInOrder
<1>1. QuerySound => TypeOK /\ LastAnnouncedIsStatus /\ PreviousWasAnnounced
  BY DEF QuerySound, Sound, Story
<1>2. ASSUME QuerySound, [QueryNext]_allVars
      PROVE  [\A o \in Order : \A x \in RowsOf(o)' \ RowsOf(o) : \A y \in RowsOf(o) :
                y.createdAt < x.createdAt]_vars
  <2>1. CASE UNCHANGED outbox
    BY <2>1 DEF RowsOf
  <2>2. CASE Next
    BY <1>2, <2>2, VisibleStep DEF QuerySound
  <2> QED
    BY <1>2, <2>1, <2>2
    DEF QueryNext, allVars, vars, HalfOpen, Fire, Read, Answer, FetchFails,
        TimeOut, LateAnswer
<1> QED
  BY <1>1, <1>2, QueryInitSound, QueryStep, PTL DEF QuerySpec, VisibleInOrder

\* The read path keeps its types, and a probe is a call in flight of a breaker
\* that is half-open.
THEOREM QueryTypeCorrect == QuerySpec => []QueryTypeOK
<1>1. QuerySound => QueryTypeOK
  BY DEF QuerySound
<1> QED
  BY <1>1, QueryInitSound, QueryStep, PTL DEF QuerySpec

\* The timeline of an answer has the status of the same answer, which was read
\* before it and outside of any transaction (findByOrderId).
THEOREM AnswersHaveTimeline == QuerySpec => []AnswersAreExplained
<1>1. QuerySound => AnswersAreExplained
  BY DEF QuerySound
<1> QED
  BY <1>1, QueryInitSound, QueryStep, PTL DEF QuerySpec

\* Orders without a shipment, which answer 404, never open the breaker
\* (errorFilter of the factory).
THEOREM AbsenceOpensNothing == QuerySpec => []MissingOpensNothing
<1>1. QuerySound => MissingOpensNothing
  BY DEF QuerySound
<1> QED
  BY <1>1, QueryInitSound, QueryStep, PTL DEF QuerySpec

\* Only its probe closes or opens a half-open breaker (the reset timeout is the
\* longer one, so no older call is still counted).
THEOREM ProbesDecide == QuerySpec => ProbeDecides
<1>1. ASSUME QuerySound, [QueryNext]_allVars
      PROVE  [breaker = "halfOpen" /\ breaker' # "halfOpen" =>
                probe # NoQuery /\ fetch'[probe] # fetch[probe]]_allVars
  BY <1>1, ProbeStep
<1> QED
  BY <1>1, QueryInitSound, QueryStep, PTL DEF QuerySpec, ProbeDecides
=============================================================================
