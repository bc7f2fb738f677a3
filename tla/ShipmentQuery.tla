---------------------------- MODULE ShipmentQuery ----------------------------
(***************************************************************************)
(* GET /orders/:id/shipment of order-service: GetShipmentForOrderHandler   *)
(* asks tracking-service through a circuit breaker, while tracking-service *)
(* creates and updates shipments.                                          *)
(*                                                                         *)
(* The breaker itself is opossum.  It opens on failures and answers with   *)
(* the fallback while it is open; after the reset timeout it is half-open  *)
(* and lets one call through.  Any success closes a half-open breaker and  *)
(* any failure opens it, whichever call it is of.                          *)
(***************************************************************************)
EXTENDS Shipments

CONSTANTS
  Query,            \* places for concurrent GET /orders/:id/shipment
  NoQuery

ASSUME QueryAssumption == IsFiniteSet(Query) /\ NoQuery \notin Query

VARIABLES
  breaker,          \* "closed", "open", "halfOpen"
  probe,            \* the call a half-open breaker let through, or NoQuery
  fetch,            \* of each query: "none", "sent", "read", "late"
  asked,            \* the order it asks for
  seen              \* the status its SELECT returned

queryVars == <<breaker, probe, fetch, asked, seen>>
allVars   == <<vars, queryVars>>

QueryTypeOK ==
  /\ breaker \in {"closed", "open", "halfOpen"}
  /\ probe \in Query \cup {NoQuery}
  /\ probe # NoQuery => breaker = "halfOpen" /\ fetch[probe] \in {"sent", "read"}
  /\ fetch \in [Query -> {"none", "sent", "read", "late"}]
  /\ asked \in [Query -> Order]
  /\ seen \in [Query -> Status \cup {Absent}]

\* Slip: the two timeouts are exchanged, in seconds.
OptionsSwapped == [timeout |-> 10, reset |-> 3]

Options == [timeout |-> 3, reset |-> 10]

\* Slip: an answer of 404 is a failure.
ErrorFilterStrict(status) == status > 404 /\ status < 500

\* An error without a status counts, and so do all but those of the caller.
ErrorFilter(status) == status >= 400 /\ status < 500

NoStatus == 0

-----------------------------------------------------------------------------
Moves(q, from, to) ==
  /\ fetch[q] \in from
  /\ fetch' = [fetch EXCEPT ![q] = to]

Forget(q) ==
  /\ asked' = [asked EXCEPT ![q] = SomeOrder]
  /\ seen' = [seen EXCEPT ![q] = Absent]

\* With errors of more than half of the calls of the last seconds, which one
\* failure may be, the breaker opens.
Count(status) ==
  /\ breaker' \in
       IF status = 200 \/ ErrorFilter(status)
         THEN {IF breaker = "halfOpen" THEN "closed" ELSE breaker}
         ELSE {"open"} \cup ({breaker} \ {"halfOpen"})
  /\ probe' = IF breaker' = "halfOpen" THEN probe ELSE NoQuery

\* fire.  Any other breaker answers with the fallback, at once.
Fire(q, o) ==
  /\ breaker = "closed" \/ (breaker = "halfOpen" /\ probe = NoQuery)
  /\ Moves(q, {"none"}, "sent")
  /\ asked' = [asked EXCEPT ![q] = o]
  /\ probe' = IF breaker = "halfOpen" THEN q ELSE probe
  /\ UNCHANGED <<breaker, seen, vars>>

\* findByOrderId: a SELECT of the shipment, and after it one of its events.
Read(q) ==
  /\ Moves(q, {"sent"}, "read")
  /\ seen' = [seen EXCEPT ![q] = shipment[asked[q]]]
  /\ UNCHANGED <<breaker, probe, asked, vars>>

StatusCode(q) == IF seen[q] = Absent THEN 404 ELSE 200

\* fetchShipment ends with what tracking-service answered.
Answer(q) ==
  /\ Moves(q, {"read"}, "none")
  /\ Forget(q)
  /\ Count(StatusCode(q))
  /\ UNCHANGED vars

\* fetch rejects, or tracking-service answers that it failed.
FetchFails(q) ==
  /\ Moves(q, {"sent", "read"}, "none")
  /\ Forget(q)
  /\ \E status \in {NoStatus, 500} : Count(status)
  /\ Fault
  /\ UNCHANGED <<shipment, events, outbox, processed, step, inputs, row, clock,
                 calls>>

\* Slip: a timeout, which has no status, is neither a success nor a failure.
TimeOutUncounted(q) ==
  /\ Moves(q, {"sent", "read"}, "late")
  /\ Forget(q)
  /\ Fault
  /\ UNCHANGED <<breaker, probe, shipment, events, outbox, processed, step,
                 inputs, row, clock, calls>>

\* The caller gets the fallback; the request goes on.
TimeOut(q) ==
  /\ Moves(q, {"sent", "read"}, "late")
  /\ Forget(q)
  /\ Count(NoStatus)
  /\ Fault
  /\ UNCHANGED <<shipment, events, outbox, processed, step, inputs, row, clock,
                 calls>>

\* The answer to a call that timed out: nobody waits for it.
LateAnswer(q) ==
  /\ Moves(q, {"late"}, "none")
  /\ UNCHANGED <<breaker, probe, asked, seen, vars>>

\* The reset timeout, which starts when the breaker opens.  Every call that was
\* let through before has its own timeout, which is the shorter one.
HalfOpen ==
  /\ breaker = "open"
  /\ Options.timeout < Options.reset =>
       \A q \in Query : fetch[q] \in {"none", "late"}
  /\ breaker' = "halfOpen"
  /\ UNCHANGED <<probe, fetch, asked, seen, vars>>

-----------------------------------------------------------------------------
QueryInit ==
  /\ Init
  /\ breaker = "closed" /\ probe = NoQuery
  /\ fetch = [q \in Query |-> "none"]
  /\ asked = [q \in Query |-> SomeOrder]
  /\ seen = [q \in Query |-> Absent]

QueryNext ==
  \/ Next /\ UNCHANGED queryVars
  \/ HalfOpen
  \/ \E q \in Query :
       \/ Read(q) \/ Answer(q) \/ FetchFails(q) \/ TimeOut(q) \/ LateAnswer(q)
       \/ \E o \in Order : Fire(q, o)

QuerySpec == QueryInit /\ [][QueryNext]_allVars

-----------------------------------------------------------------------------
(***************************************************************************)
(* Properties.                                                             *)
(***************************************************************************)

\* The statuses in the events of a shipment.
Timeline(o) == {e.status : e \in {x \in events : x.order = o}}

\* The status an answer shows is explained by the timeline in the same answer,
\* which a second SELECT outside of any transaction reads, while updates of
\* the shipment are at any of their three statements or fail between them.
AnswersAreExplained ==
  \A q \in Query :
    fetch[q] = "read" /\ seen[q] # Absent => seen[q] \in Timeline(asked[q])

\* However many customers ask for the shipment of an order that has none yet,
\* none of them is the reason that others get the fallback: the breaker is
\* closed until a call failed or timed out ("Don't count 4xx errors as
\* failures" of the factory).
MissingOpensNothing == breaker # "closed" => faults > 0

\* A half-open breaker is decided by the call it let through, and by no answer,
\* failure or timeout of a call from before it opened.
ProbeDecides ==
  [][breaker = "halfOpen" /\ breaker' # "halfOpen" =>
       probe # NoQuery /\ fetch'[probe] # fetch[probe]]_allVars
=============================================================================
