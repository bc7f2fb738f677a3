# Logistics platform: TLA+ models, checks and proofs

Three services exchange events over RabbitMQ: order-service stores orders and
an outbox, tracking-service keeps shipments, notification-service sends mail and
SMS. Delivery is at least once, effects are meant to be exactly once, and the
state that guarantees it is spread over three databases, a broker and the memory
of several processes. This directory models that machinery from its source,
checks it with TLC on small instances and proves the core with TLAPS.

## The system

| Component | State | Operations | Interacts with |
|---|---|---|---|
| Outbox relay (`libs/messaging/src/outbox`), one per process of order- and tracking-service | `timer`, `running`, `wakeRequested`, `stopped`; the batch of the running tick | `onModuleInit`, `wake`, `tick`, `publishRecord`, `scheduleNextTick`, `onModuleDestroy` | outbox table, RabbitMQ client, request handlers that call `wake()` |
| Outbox stores (`prisma-outbox.store.ts`, `outbox.repository.ts`) | `outbox` rows: `publishedAt`, `deadAt`, `attempts`, `createdAt` | `claimBatch`, `markPublished`, `markFailed`, `markDead`, `enqueue` | the relay; the two stores count attempts at different moments |
| RabbitMQ client | connection, confirm channel, consumer channels | `connect`, `publish`, `consume`, `close` | broker through amqp-connection-manager, which buffers and re-sends |
| Idempotent consumer and processed-message stores | `processed_messages` (unique on consumer and event); the runs of `handleMessage` in flight | `start`, `handleMessage`, `markProcessed` | broker (ack, nack, dead-letter), the handler inside the transaction |
| Shipments (tracking-service) | `shipments`, `tracking_events`, `outbox` | `createPendingShipment`, `updateShipmentStatus`, reads | consumer of `order.created`, relay |
| Notification dispatch | `notification_deliveries`; the provider's own state | `dispatch`: create row, send, mark SENT or FAILED | runs inside the transaction of `markProcessed` |
| DLQ tool (`tools/dlq-redrive`) | its channel's unacknowledged message, a counter | `list`, `peek`, `redrive` | a dead-letter queue, the work queue, the consumer of that |
| Orders (order-service) | `orders`, `order_items` | create, cancel, get; the rules of DTO, aggregate, schema and columns | outbox row in the transaction of create, then `wake()` |
| Circuit breaker of the shipment query | opossum's state of the one breaker; the calls in flight | `fire`, fallback, timeout, reset | tracking-service over HTTP |
| Topology | exchanges, three work queues, their DLQs, bindings | - | `docker/rabbitmq/definitions.json` |

Contracts keep no state, and of correlation only the choice of the id reaches an
event: both are operators of `OrderRules`. What is left out is under "Not
modelled".

### Where it is hard

* **Interleaving.** Every `await` in a tick lets `wake()`, the timer and the
  shutdown hooks run. Several processes share one outbox table and one queue;
  several status updates overlap in one shipment.
* **Crash and restart** between a confirm and `markPublished`, between a commit
  and an ack, between `sendToQueue` and ack in the tool.
* **Answers that are lost**: a commit or an update takes effect and its call
  rejects; the broker stores a message and the confirm never arrives.
* **Order** of events: rows that fail are overtaken; rows become visible at the
  commit and are ordered by a `createdAt` taken earlier.
* **Late answers**: a call times out and goes on; it must move the breaker once.
* **Limits**: the attempt after which a row is dead; a message that always fails;
  a redrive that is fed by what it sends.
* **Effects outside of the transaction**: the provider keeps a notification that
  the database has forgotten.

What makes the parts correct: the relay publishes every committed row at least
once or gives it up after its attempts, no more often than something failed, in
order unless a row was tried, from one polling loop that loses no wake-up. The
consumer applies every event at most once, acknowledges after the effect is
durable, dead-letters only what it cannot read, and is not stopped by a poison
message. The tables of each service agree with each other and with what was
announced. The tool loses nothing. An order is refused before it is committed if
anything behind it would refuse it, and a committed order says what was asked
for. A customer who asks for a shipment gets an answer that agrees with itself,
and the fallback only because something failed.

## Modules

| Module | Models |
|---|---|
| `Outbox` | abstract: what the transactional outbox promises |
| `OutboxRelay` | relay, both stores, publish side of the client, life of the process; implements `Outbox` |
| `OutboxRelay_proofs`, `OutboxRelayCounts_proofs` | theorems about the loop, the order and the refinement, and about what is counted: attempts, tries, copies |
| `Inbox` | abstract: what an idempotent consumer promises about its queue |
| `IdempotentConsumer`, `IdempotentConsumer_proofs` | `handleMessage`, `consume`, `markProcessed`, queue and dead-lettering; implements `Inbox`; theorems |
| `NotificationDispatch`, `NotificationDispatch_proofs` | `dispatch` inside the transaction, the provider outside; theorems |
| `Shipments`, `Shipments_proofs` | creation and overlapping status updates with timeline and outbox; theorems |
| `ShipmentQuery`, `ShipmentQuery_proofs` | extends `Shipments` with `GET /orders/:id/shipment`: handler, circuit breaker, and the reads of tracking-service; theorems, which use those about `Shipments` |
| `DlqRedrive`, `DlqRedrive_proofs` | `peek` and `redrive` beside a consumer; theorems |
| `OrderRules` | what DTO, aggregate, event schema and columns accept, and what they make of an order |
| `Platform`, `Platform_proofs` | extends `OrderRules`; the three services over the bindings: two outboxes, three consumers, the life of an order; theorems |
| `MC...` | instances for TLC |

In all of them a step is what the code does between two awaits, a database
transaction takes effect at its commit, and a variable named in the section
"history" or `faults` exists only for the properties. `MaxFaults` bounds the
faults of a behaviour; every action that stands for a fault takes one.
Definitions whose comment begins with "Slip" are wrong variants of the
definition that follows or uses them, each a plausible mistake in that code; no
specification uses them. `PROJECT.json` pairs each with the property it breaks.

### OutboxRelay

A member of `Relay` is one process. `step[r]` is the await the running tick is
at: `claiming` (`claimBatch`), `sending` and `confirming` (inside `publish`),
`marking`, `failing`, `dying` (the three marks); `idle` is `running = false`.
`batch[r]` is what the for loop has not finished, its oldest row the current
one, `seen[r]` the `attempts` the claim returned. `Tick` is the timer's callback
with its early returns; `Claim`, `MarkPublished`, `MarkFailed`, `MarkDead` each
end with what follows up to the next await: the next `publishRecord`
(`Publish`), or the finally block (`EndTick`). `Commit` and `Wake` are a request
handler: the row commits with its aggregate, and `wake()` comes in a later step,
so it may meet a tick in any state. `CountsOnClaim` chooses the store: TRUE is
`OutboxRepository`, which adds to `attempts` in the claim, FALSE is
`PrismaOutboxStore`, which adds in the marks.

While the link is down a message waits in the channel wrapper; one that was not
confirmed is sent again (`Disconnect` puts `confirming` back to `sending`).
`Terminate`, `Stop`, `Close`, `Exit` are SIGTERM with the two `onModuleDestroy`
hooks in either order, and none waits for the tick. tracking-service enables no
shutdown hooks, so there SIGTERM is `Crash`; allowing both to both services
leaves the properties that hold valid for each.

Rows are numbered by `createdAt`; any subset of them may be committed, in any
order, by any process, which covers clocks that differ.

### IdempotentConsumer

`where[c]` places each message copy; `stage[q]` is how far a run of
`handleMessage` is. The transaction of `markProcessed` is `inserted` between its
insert and its commit, and holds the unique index entry (`Locked`), so that a
second run waits and then finds the row or not. `live[q]` says whether the
channel the copy came on still exists; on a dead channel `ack` throws, `nack` in
the catch block of `consume` throws too, and the process ends (`Settle`). A
requeued message returns to its place in the queue, as in a RabbitMQ 3.13 classic
queue, which has no delivery limit. An event of `Poison` is one whose transaction
fails every time, in the handler or in the INSERT, as in notification-service on
the database of its schema.

`ProcessedMessageRepository` calls every P2002 a duplicate, also one that the
handler throws, and the message is then acknowledged. That is not modelled:
`createPendingShipment` looks for the shipment before it creates one, so that it
would take two events for one order, handled at the same time, and order-service
makes one for each.

### NotificationDispatch, Shipments, DlqRedrive

`NotificationDispatch` reduces the queue to "a message stays until a run
acknowledges it, and any number of runs may hold it". `accepted` is the
provider's memory, which no rollback touches. The providers of the repository
are stubs that never throw; the model allows what their interface and `dispatch`
provide for. `ColumnsMatch` says whether the tables have the columns that the raw
SQL names, which those of the repository's schema do not (see "Where code and
documents disagree"). If FALSE, every `Insert` fails and nothing behind it runs;
`Create` and the two marks have the same mismatch and are not reached. The runs
use TRUE, as they ask what `dispatch` does; the theorems are for both.

In `Shipments` a call reads the shipment (`Find`), updates it and so takes the
row lock (`UpdateStatus`), inserts the event and the outbox row (`Enqueue`, where
`createdAt` is taken) and commits. `current` is what `Find` read and may be
stale. `createdAt` is one clock: with several processes the properties assume
clocks that agree. The code has no caller of `updateShipmentStatus` outside its
tests, so the callers are any.

`ShipmentQuery` adds the readers. A member of `Query` is a request to
order-service: `fetch[q]` is `sent` until tracking-service has read the row
(`Read`; `seen[q]` is the status, or `Absent` for a 404), `read` until the events
are read too and the answer is back (`Answer`), and `late` once the breaker has
timed the call out and answered for it, while the request goes on. The breaker is
opossum's, modelled by how the factory and the handler use it: `Count` is what
an outcome does to it, `ErrorFilter` the factory's filter of 4xx, `Options` the
handler's two timeouts, in seconds. A failure may open a closed breaker, or not, as
that depends on the calls of the last ten seconds. A call that is not let
through gets the fallback at once and is no step. `HalfOpen` compares the two
timeouts instead of the time: every call let through before the breaker opened
has timed out when the longer reset timeout ends.

`Enqueue` takes `createdAt` at the insert. The code leaves it to
`@default(now())` (tracking `schema.prisma:53`), and the model relies on Prisma
Client (locked at 6.19.3) filling that in itself, for each query. Were it left
to PostgreSQL, whose `CURRENT_TIMESTAMP` is the start of the transaction, a call
that waits for the row lock would number its row before the one it waits for, and
`LastAnnouncedIsStatus`, `PreviousWasAnnounced` and `VisibleInOrder` would be
false.

`DlqRedrive` counts the copies of each message in the two queues and what each
run holds unacknowledged; the consumer of the work queue dead-letters some
messages again.

### OrderRules

A text is its length, its length once trimmed and the letters it gains in upper
case, as more is not looked at by any rule; one text stands for sku and name, one for
the lines of an address. `DtoValid` looks at the text as it came,
`ItemCreatable` and `Constructible` at the trimmed one, `SchemaAccepts` at what
`Place` stored of it (a country of one letter and a blank passes the pipe and
not the schema, unless upper case makes two letters of the one), `Storable` at the
sum. `MaxColumn` and `MaxExact` stand for 2^31 - 1 and 2^53: above `MaxExact`
the sums and products of JavaScript are rounded (`Float`). The id of the order and
the times are made by the code and always valid.

### Platform

`Platform` composes the abstract modules, which the detailed ones implement:
two instances of `Outbox` (order-service, tracking-service) and three of `Inbox`
(the queues of `definitions.json`). What it adds is what no single component
has: a publication of `order.created` goes to two queues (`RouteOrder`); an
order passes the four rules of `OrderRules` before it is committed (`Create`) and
its schema again at both consumers; a status update needs a shipment, which the message
of another service creates, and stores its announcement without applying
`shipmentStatusChangedEventSchema` (`UpdateShipment`), so that the consumer may
refuse its location (`unreadable`). `FindToCancel` and `UpdateCancelled` are
cancel-order before and after its await: two requests may both have read
PENDING. The update writes no outbox row. `Request` is what each order asks for;
`Found` is the order `findById` builds again from its rows, with the rules of the
constructor, and `View` what `GET /orders/:id` answers. A member of `Change` is a call that
changes the status and is committed; calls that change nothing or fail write
nothing. `MaxCopies` bounds how often one row is published; `orderHeld` and
`changeHeld` number the copies.

`columnsMatch` is chosen in `Init` and never changes: whether notification_db has
the columns the consumers write. `MailCustomer` and `TextCustomer` need it; what
a schema refuses is dead-lettered without it, as `handleMessage` parses before it
opens a transaction. So `OrdersArrive` and `ChangesArrive` say of both databases
what becomes of an event: told or dead-lettered on the one, not lost on the other.

That `OutboxRelay` implements `Outbox` and `IdempotentConsumer` implements
`Inbox` is proved. `Inbox` is used with the receipt of a copy as
`Send`, which is the publication here: exchange and queues store what they accept.

## Runs

| Run | Instance | Shows |
|---|---|---|
| `relay_order` | 1 relay, 2 rows, batch 2, 2 attempts, 2 faults; 180,236 states | type, one loop, wake-ups, duplicates bounded by faults, retry limit, order, implements `Outbox`, every row settles |
| `relay_tracking` | 2 relays, 2 rows, counts on claim, 1 fault; about 2 million states | what survives when two processes claim the same rows |
| `relay_skip_locked` | 2 relays, no fault | violation of `ClaimsAreExclusive` |
| `relay_dead_early` | 1 relay, counts on claim, no fault | violation of `DeadIsExhausted` |
| `consumer` | 2 workers, prefetch 1, poison, a good event twice, invalid; 1 fault; 11,183 states | no second effect, one settler per message, implements `Inbox`, good messages leave the queue |
| `consumer_poison` | same, no fault | violation of `PoisonReachesDlq` |
| `redrive` | 2 operators, 2 messages, counts 1 and 2, 2 faults; 36,687 states | nothing lost to a redrive, copies bounded, redrives end |
| `redrive_peek` | same | violation of `PeekRemovesNothing` |
| `shipments` | 2 shipments, 3 updates of which 2 overlap, 2 queries, 2 faults; about 1.1 million states | announcements chain, end with the status, become visible in order; answers are explained by their timeline; a missing shipment opens nothing; only its probe decides a half-open breaker |
| `notification` | 3 runs, 2 events, 3 faults, the columns of the SQL; 4,613 states | tables agree, repeats need faults, none lost |
| `notification_refused` | same, no fault | violation of `RefusalIsRecorded`, on a database with the columns of the SQL |
| `platform` | 5 orders of which four are refused, each by another rule, 2 cancels, 1 change, 2 copies; with and without the columns of the SQL; 50,934 states | effects have causes, orders are never dead-lettered, totals are exact and rows can be read again; committed orders get their shipment; customers are told of orders and readable changes if the columns match, and if not the messages are still in their queues; an unreadable change is never just acknowledged |

**Bounds.** Order and retry need two rows, two attempts and a batch that holds
both; a duplicate needs one fault, and a duplicate of a failed row that is then
given up needs two. The properties of pairs of rows speak of two of them at a
time, those of pairs of processes of two. A poison message, two copies and an
invalid one make a queue of four; one fault lets each of them be redelivered
while an old run goes on. Two overlapping status updates give one that waits
behind another and one that read before it, and the third comes before or after
or takes a freed place. Two faults are a failure that opens the breaker and
another, of the probe or of a call of before. In `platform`
`MaxColumn` is 15 and `MaxExact` 31; the totals are 15, which just fits, and 50,
which is 48 as a double. Two copies of each message are what deduplication has
to tell apart, and the properties speak of one order or change at a time. What
is proved below does not depend on any bound. `shipments` may stop when its
calls are used up, so only there deadlock is not checked.

**Fairness.** Only what the platform drives by itself is fair: the event loop
and the database finish what they begin (`Loop`, `Handle`, `Work`), the broker
answers and delivers (`Channel`, `Deliver`), amqp-connection-manager reconnects
every five seconds, a shutdown ends, and `restart: unless-stopped` in
docker-compose brings a process back. Requests, publications, faults, SIGTERM
and operators are not fair; neither is `Wake`, as the row settles through the
poll interval without it. Faults are finite in a behaviour, so `RowsSettle` and
`GoodSettle` say what happens once nothing fails any more. `Deliver` is strongly
fair: a consumer's free place comes and goes with the poison message ahead, and
RabbitMQ does not pass over a ready message for ever in favour of a requeued one
when there is a second consumer. With one worker at prefetch 1 a poison message
at the head would indeed hold up the queue; the run has two workers.

In `platform` each relay settles its rows and each consumer its messages as long
as there are any (weak fairness of the settling as a whole, as a relay may
choose to publish a row again and again only `MaxCopies` times), notification-service
only if its columns match. If they do not, nothing is fair to it: its messages are
requeued at once and return to the head, so ten of them, the prefetch, keep each
consumer from the rest, unreadable ones included. Both are what
`RowsSettle` and `GoodSettle` show of the detailed modules; an order whose
handler fails for ever (`consumer_poison`) is outside of it, and so is a
provider that refuses an e-mail for ever.

## Proofs

Every invariant and every action property of the passing runs is also a theorem,
for all values of the constants that the assumptions admit. An induction over
the steps needs more than the property itself: the third column names the
inductive invariant and what it adds. Each was checked with TLC on the instance
of the run before it was proved.

| Theorem | Says | Invariant it rests on |
|---|---|---|
| `TypeCorrect` | `Spec => []TypeOK` | `TypeOK` with `BusyHasBatch`: a tick that handles a row has one, so `Current` is a row |
| `RelayImplementsOutbox` | `Spec => ImplementsOutbox` | `Backed`: claimed rows are committed (`BatchStored`), and a row that is being confirmed or marked is held by the broker (`ConfirmedHeld`) |
| `LoopIsOne`, `NoWakeLost` | `[]OneLoop`, `[]WakeNotLost` | `LoopInv`: the two together with `DownIsReset`, since a restart relies on what the end of the process reset |
| `OrderKeptUnlessTried` | `[]OvertakenOnlyAfterTry` | `Ordered`: what is settled or current was tried, a row not stored was never handled, and a batch that holds a younger row holds every older one that was committed before it and not tried |
| `GivenUpIsExhausted` | `[]DeadIsExhausted` if the store counts in its marks | `Retry`: the count in the row plus the relays that have tried and not yet counted never exceeds the tries; `AttemptsTried` leaves out published rows, which a lost answer lets be counted twice |
| `CopiesAreExplained` | `[]DuplicatesNeedFaults` | `Paid`: who pays for the copies of a row. While it is unsettled they are paid by the relays that have a confirm to act upon and by the faults (`CopiesPaid`, where a relay that is told to stop still owes one); once it is settled, by the relays that do not carry it unsent, and the faults (`SettledPaid`). A relay without a channel is not at a publication (`ClosedIsSilent`) |
| `GivenUpIsUndelivered` | `[]DeadMeansUndelivered` | `AloneIsExact`: the property with its companion, that a batch of the only relay has no settled row while nothing failed |
| `TriesCount` | `[]TriesAreCounted` with either store | `Covered`: with `CountsOnClaim` the waiting rows of a batch are counted in advance (`ClaimsCover`); else each relay at the row owes one count and each fault or stopped process may have lost one (`MarksCover`) |
| `ConsumerTypeCorrect`, `EachHasOneSettler`, `NoneTakesEffectTwice` | `[]TypeOK`, `[]OneSettler`, `[]NoSecondEffect` of `IdempotentConsumer` | `Consistent`: types; `Settlers`, the two sides of "unacknowledged" (a live run works on an unacknowledged copy, no two on the same, each such copy has one); `Effects`, what the unique index keeps (events of open transactions are new and different, processed is what applied counts once) |
| `ConsumerImplementsInbox` | `Spec => ImplementsInbox` | `Consistent`, with `HandledIsSent` for `Apply`, `DoneIsProcessed` for `Discard` and `LiveIsUnacked` for what a run settles or a lost channel gives back |
| `DispatchTypeCorrect`, `TablesTellTheTruth`, `ToldOncePerFault`, `NoNotificationLost` | `[]TypeOK`, `[]TablesAgree`, `[]RepeatsNeedFaults`, `[]NoneLost` of `NotificationDispatch` | `Consistent`: `Progress`, that open transactions are of new and different events, that what a run calls sent was taken by the provider and what it calls done is `SENT` in its draft; `RepeatsCounted`, that all that the provider took before the latest attempt was paid by a fault |
| `SchemaStopsDelivery` | of `NotificationDispatch`: on the database of the repository's schema no message is acknowledged, no event processed, nothing sent | `Stuck`: without the columns no run gets beyond its INSERT |
| `ShipmentsTypeCorrect`, `AnnouncedIsStatus`, `PreviousIsAnnounced`, `RowsAppearInOrder` | `[]TypeOK`, `[]LastAnnouncedIsStatus`, `[]PreviousWasAnnounced`, `VisibleInOrder` of `Shipments` | `Sound`: `Transactions`, that one call holds the lock of a shipment, that its row is younger than all committed ones, and that what a call read before it had the lock was announced; `Story`, the properties with `StatusHasEvent`; `ClockCounted`, which bounds the clock |
| `QueriesDisturbNothing` | the shipments keep their properties beside the queries | `Sound` again: a step of a query changes at most `faults` |
| `QueryTypeCorrect`, `AnswersHaveTimeline`, `AbsenceOpensNothing`, `ProbesDecide` | `[]QueryTypeOK`, `[]AnswersAreExplained`, `[]MissingOpensNothing`, `ProbeDecides` of `ShipmentQuery` | `QuerySound`: `Sound`, of which `StatusHasEvent` explains what a SELECT sees, and `OnlyProbeInFlight`, that a half-open breaker listens to no call but its probe |
| `RedriveTypeCorrect`, `NoMessageLost`, `FaultsMultiply` | `[]TypeOK`, `[]RedriveLosesNothing`, `[]CopiesNeedFaults` of `DlqRedrive` | `Held`: the `Weight` of a message, its copies without those that a run has sent on and not acknowledged, is positive and at most one and the faults: an ack leaves it, and of a run cut off before its ack it grows by one |
| `PlatformTypeCorrect`, `EffectsAreCaused`, `OrdersStayReadable` | `[]TypeOK`, `[]EffectsHaveCause`, `[]OrdersAreReadable` of `Platform` | `Chain`: types, and for each event the chain commit, outbox row, copy at the broker, message in the queue, effect, every link of which needs the one before (`OrderChain`, `ChangeChain`) |
| `PartsKeepTheirSpecs` | in `Platform` both outboxes behave as `Outbox` and the three queues as `Inbox` | `Chain`, for the copies a publication sends; with the two refinements above it ties the composition to the detailed modules |
| `TotalsStayExact` | `[]TotalsAreExact` of `Platform` | `Accepted`: a row is of a request that passed, and who cancels has read a row; with `RoundedIsExact`, below |

**Assumptions.** Those about the relay are for any finite set of relays, any
finite set of rows, which are numbered as `createdAt` orders them, any batch
size, limits and number of faults, under `RelayAssumption` (the types of the
constants). That a set of rows has an oldest is a lemma, `OldestExists`.
Those about the consumer hold for any workers, slots, prefetch, copies, events
and faults, with either value of `RetryOnError`, under `ConsumerAssumption`
(types, and at least one copy: the name of the copy of a free run is one). They
need no bound on the runs: `SlotAssumption` is only there so that the model has
room. `DispatchAssumption`, `ShipmentAssumption`, `QueryAssumption` and
`RedriveAssumption` give the types of their constants, finite sets of runs,
calls, queries, operators and messages, and at least one event and one order,
for the same reason. `PlatformAssumption` gives types, of the requests too
(`AnyRequest`: any texts, any number of items, any integers).

**Totals.** `TotalCents` and `ExactTotal` are recursive functions over items of
any number. Induction with the library's theorems is out of reach, as they take
an operator, but a least counterexample is not: `LeastExists` (a set of naturals
has a least member, from the well-foundedness of `<`) gives `UpTo`, and that
gives `SumExists` and `SumsAgree`, by which the functions exist and are what
their recursion says. `RoundedIsExact` is the argument about doubles: a sum that
has once left the exact integers never comes back below `MaxExact`, so a total
below it is exact. The proof needs `MaxColumn < MaxExact`, which
`WidthAssumption` therefore says (2^31 - 1 and 2^53 satisfy it). With equality
the property is false: a sum of `MaxExact + 1` can be rounded to `MaxExact`, and
be stored as if it were exact.

**Argument.** `EffectsHaveCause` speaks of the two ends of a chain, so each of
the links between them is needed for the induction. `OneLoop` alone is inductive
only with `DownIsReset`; `OvertakenOnlyAfterTry`, `DeadIsExhausted` and the
counts are not inductive without their companions. `CopiesNeedFaults` counts a
copy twice while a run is between `sendToQueue` and ack, and the induction needs
the count that does not. The refinements are the usual two facts: `Init` maps to
the abstract `Init`, and under the invariant every step is one of the abstract
specification or a stutter.

Only model-checked: `RowsSettle`, `GoodSettle`, `RedriveEnds`, `OrdersArrive` and
`ChangesArrive`, as liveness under fairness is out of the prover's reach.

## Where code and documents disagree

* **notification-service tells nobody anything on its own schema.**
  `prisma/schema.prisma:10-34` maps the names of the tables and of no column, so
  `prisma db push`, the only thing in the repository that makes tables, makes
  `consumerName`, `eventId`, `sentAt` and so on. The raw SQL of
  `prisma-processed-message.store.ts:20-36` and
  `prisma-notification-delivery.repository.ts:20-56, 72-88` writes
  `consumer_name`, `event_id`, `sent_at`. The first INSERT of every run fails,
  the message is requeued, and so for ever: no e-mail, no text message, no row.
  ARCHITECTURE.md:79-83 and RUNBOOK.md:51 say that the notification is sent, and
  the end-to-end test whose title asks for a "notification delivery row"
  (`test/e2e/full-flow.e2e.test.ts:28`) runs `SELECT 1`. Such a message is the
  poison of `consumer_poison`; `columnsMatch` of `Platform` and `ColumnsMatch` of
  `NotificationDispatch` keep the two databases apart; `SchemaStopsDelivery` is
  the consequence, proved. Safety does not depend on it.
* No store locks what it claims, though ARCHITECTURE.md names `FOR UPDATE SKIP
  LOCKED` (`relay_skip_locked`).
* tracking-service counts an attempt in the claim and the relay adds one again:
  rows die one attempt early (`relay_dead_early`). Of the other store the documents
  say `attempts > 10`, and the code gives a row up at its tenth try.
* A failing handler is retried at once and for ever; there is no backoff and no
  route to the DLQ after N retries (`consumer_poison`).
* `peek` consumes with `noAck: true` and empties the queue (`redrive_peek`).
* A FAILED delivery is rolled back with its transaction (`notification_refused`).

Read in the source and without a run: `order.cancelled` is never published;
no outbox row is written when a shipment is created (ARCHITECTURE.md:73); the
relay has no exponential backoff (:94); an open circuit returns a constant, not
a value from Redis (:113); `failureThreshold` is no option of opossum; README
names a delayed-message retry, and the topology declares the exchange for it
(`logistics.events.retry`) and binds nothing to it. In the read path:
`GetShipmentForOrderHandler` takes `trackingServiceUrl: string` without an
injection token (get-shipment-for-order.handler.ts:17), which Nest cannot resolve;
`ShipmentInfo` expects `shipmentId` and `lastUpdated` where tracking-service
answers `id` and `updatedAt`; an order without a shipment is answered with 500,
as the error of a 404 carries only a `status`; and with neither
`failureThreshold` nor a volume threshold the first failure of a quiet breaker
opens it.

## Not modelled

* Health, readiness and metrics: reads of a database and of a flag.
* Bootstrap and modules: wiring. What they decide (batch size, attempts,
  prefetch, shutdown hooks) is in constants and in `Terminate` and `Stop`.
* Logging, tracing and the context that carries the correlation id: nothing a
  service decides depends on them. The id itself is in `OrderRules`.
* The choice of the notification provider: it depends on the environment and the
  channel alone, and a provider is what may take or refuse a notification.
* The generated Prisma client, a good part of the lines of the repository: its
  queries are modelled by what they do to the tables. Test helpers.
* `list` of the tool, `hasPending`, `getState` and `getStats`: they read only.
* `Order.confirm`: it has no caller.

## Plan

Done: abstract and detailed relay, consumer, shipments and their queries,
notifications, tool, the rules for orders, the composition of the services; a
theorem for every invariant and action property of the runs, and for the place
of each part in the composition. Next: simplify what the proofs of the counts
repeat for each action, and follow the code where it changes.
