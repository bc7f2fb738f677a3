----------------------------- MODULE OutboxRelay -----------------------------
(***************************************************************************)
(* BaseOutboxRelay (libs/messaging) over the two OutboxStore classes of    *)
(* the platform, publishing through RabbitMQClient.                        *)
(*                                                                         *)
(* Each member of Relay is one process of a service: the timer-driven      *)
(* polling loop, the request handlers that commit rows and call wake(),    *)
(* and the confirm channel to the broker.  All of them share one outbox    *)
(* table.  A step of this module is what the process does between two      *)
(* awaits, so everything the event loop may interleave is interleaved.     *)
(***************************************************************************)
EXTENDS Integers, FiniteSets

CONSTANTS
  Relay,            \* processes of the service, each with its own relay
  Record,           \* rows of the outbox table, numbered in createdAt order
  BatchSize,        \* OUTBOX_BATCH_SIZE
  MaxAttempts,      \* OUTBOX_MAX_ATTEMPTS
  CountsOnClaim,    \* TRUE: OutboxRepository of tracking-service, which adds
                    \* to attempts in claimBatch; FALSE: PrismaOutboxStore of
                    \* order-service, which adds to it in every mark
  MaxFaults         \* bound on crashes, lost links, failed queries, SIGTERMs

ASSUME RelayAssumption ==
  /\ IsFiniteSet(Relay)
  /\ Record \subseteq Nat
  /\ IsFiniteSet(Record)
  /\ BatchSize \in Nat \ {0}
  /\ MaxAttempts \in Nat \ {0}
  /\ CountsOnClaim \in BOOLEAN
  /\ MaxFaults \in Nat

VARIABLES
  \* the outbox table
  stored,           \* rows that are committed
  published,        \* rows with publishedAt set
  dead,             \* rows with deadAt set
  attempts,         \* the attempts column
  \* the broker
  held,             \* copies of each row's message it accepted
  \* each process
  life,             \* "up", "term" after SIGTERM, "down"
  timer,            \* the pending setTimeout: "none", or due in "zero", "poll"
  wakeRequested,
  stopped,
  step,             \* the await the running tick is at; "idle" if none runs
  batch,            \* claimed rows the loop has not finished, current first
  seen,             \* attempts as claimBatch returned it, for each such row
  open,             \* pubChannel is not null
  linked,           \* the connection to the broker is up
  owed,             \* rows committed by a handler that has yet to call wake()
  \* history
  before,           \* the rows already stored when a row was
  woken,            \* rows wake() was called for since the last claim
  tries,            \* publishRecord calls for each row
  faults

table   == <<stored, published, dead, attempts>>
process == <<life, timer, wakeRequested, stopped, step, batch, seen>>
client  == <<open, linked>>
history == <<before, woken, tries>>
vars    == <<table, held, process, client, owed, history, faults>>

Steps == {"idle", "claiming", "sending", "confirming",
          "marking", "failing", "dying"}

TypeOK ==
  /\ stored \subseteq Record
  /\ published \subseteq Record
  /\ dead \subseteq Record
  /\ attempts \in [Record -> Nat]
  /\ held \in [Record -> Nat]
  /\ life \in [Relay -> {"up", "term", "down"}]
  /\ timer \in [Relay -> {"none", "zero", "poll"}]
  /\ wakeRequested \in [Relay -> BOOLEAN]
  /\ stopped \in [Relay -> BOOLEAN]
  /\ step \in [Relay -> Steps]
  /\ batch \in [Relay -> SUBSET Record]
  /\ seen \in [Relay -> [Record -> Nat]]
  /\ open \in [Relay -> BOOLEAN]
  /\ linked \in [Relay -> BOOLEAN]
  /\ owed \in [Relay -> SUBSET Record]
  /\ before \in [Record -> SUBSET Record]
  /\ woken \in [Relay -> SUBSET Record]
  /\ tries \in [Record -> Nat]
  /\ faults \in Nat

-----------------------------------------------------------------------------
(***************************************************************************)
(* Shared parts of the handlers.                                           *)
(***************************************************************************)

\* Slip: the filter on publishedAt is dropped.
PendingIgnoresPublished == stored \ dead

\* Slip: the filter on deadAt is dropped.
PendingIgnoresDead == stored \ published

\* Slip: the filter is on attempts, as the index in schema.prisma is.
PendingUntried == {i \in stored \ (published \cup dead) : attempts[i] = 0}

Pending == stored \ (published \cup dead)

\* orderBy createdAt asc, take n.
Oldest(S, n) == {i \in S : Cardinality({j \in S : j < i}) < n}

\* Slip: the loop takes the batch from its end.
LastInstead(S) == CHOOSE i \in S : \A j \in S : j <= i

First(S) == CHOOSE i \in S : \A j \in S : i <= j

Current(r) == First(batch[r])

Zeros == [i \in Record |-> 0]

Running(r) == step[r] # "idle"

Alive(r) == life[r] # "down"

\* scheduleNextTick: a stopped relay arms no timer.
Arm(r, delay) ==
  timer' = IF stopped[r] THEN timer ELSE [timer EXCEPT ![r] = delay]

\* Slip: one attempt too few before a row is given up.
FailStepEarly(n) == IF n + 2 >= MaxAttempts THEN "dying" ELSE "failing"

\* The catch block's choice between markFailed and markDead, from the
\* attempts the claim returned.
FailStep(n) == IF n + 1 >= MaxAttempts THEN "dying" ELSE "failing"

\* Slip: the count goes the wrong way.
CountedDown(i) ==
  IF CountsOnClaim THEN attempts ELSE [attempts EXCEPT ![i] = @ - 1]

\* Slip: no store counts in its marks.
NeverCounted(i) == attempts

\* What the marks add to the attempts column.
Counted(i) ==
  IF CountsOnClaim THEN attempts ELSE [attempts EXCEPT ![i] = @ + 1]

\* Slip: neither store counts in its claim.
ClaimNotCounted(S) == attempts

\* What the claim of rows S adds to the attempts column.
CountedByClaim(S) ==
  [i \in Record |->
     IF CountsOnClaim /\ i \in S THEN attempts[i] + 1 ELSE attempts[i]]

\* The finally block.
EndTick(r) ==
  /\ step' = [step EXCEPT ![r] = "idle"]
  /\ batch' = [batch EXCEPT ![r] = {}]
  /\ seen' = [seen EXCEPT ![r] = Zeros]
  /\ Arm(r, IF wakeRequested[r] THEN "zero" ELSE "poll")
  /\ UNCHANGED tries

\* The loop goes on with rest: publishRecord is called for its oldest row,
\* and throws at once when the channel is already gone.
Publish(r, rest, returned) ==
  /\ step' = [step EXCEPT ![r] =
                IF open[r] THEN "sending" ELSE FailStep(returned[First(rest)])]
  /\ batch' = [batch EXCEPT ![r] = rest]
  /\ seen' = [seen EXCEPT ![r] = returned]
  /\ tries' = [tries EXCEPT ![First(rest)] = @ + 1]
  /\ UNCHANGED timer

Proceed(r, rest, returned) ==
  IF rest = {} THEN EndTick(r) ELSE Publish(r, rest, returned)

Fault ==
  /\ faults < MaxFaults
  /\ faults' = faults + 1

-----------------------------------------------------------------------------
(***************************************************************************)
(* Request handlers: the row commits with its aggregate, and wake() is     *)
(* called once the commit has returned.                                    *)
(***************************************************************************)

Commit(r, i) ==
  /\ Alive(r)
  /\ i \notin stored
  /\ stored' = stored \cup {i}
  /\ before' = [before EXCEPT ![i] = stored]
  /\ owed' = [owed EXCEPT ![r] = @ \cup {i}]
  /\ UNCHANGED <<published, dead, attempts, held, process, client,
                 woken, tries, faults>>

\* Slip: wake() does nothing while a tick runs.
WakeIgnoredWhileRunning(r, i) ==
  /\ i \in owed[r]
  /\ owed' = [owed EXCEPT ![r] = @ \ {i}]
  /\ woken' = [woken EXCEPT ![r] = @ \cup {i}]
  /\ IF Running(r)
       THEN UNCHANGED <<timer, wakeRequested>>
       ELSE /\ wakeRequested' = [wakeRequested EXCEPT ![r] = TRUE]
            /\ Arm(r, "zero")
  /\ UNCHANGED <<table, held, life, stopped, step, batch, seen, client,
                 before, tries, faults>>

\* Slip: wake() arms a timer though a tick runs.
WakeAlwaysArms(r, i) ==
  /\ i \in owed[r]
  /\ owed' = [owed EXCEPT ![r] = @ \ {i}]
  /\ woken' = [woken EXCEPT ![r] = @ \cup {i}]
  /\ wakeRequested' = [wakeRequested EXCEPT ![r] = TRUE]
  /\ Arm(r, "zero")
  /\ UNCHANGED <<table, held, life, stopped, step, batch, seen, client,
                 before, tries, faults>>

Wake(r, i) ==
  /\ i \in owed[r]
  /\ owed' = [owed EXCEPT ![r] = @ \ {i}]
  /\ woken' = [woken EXCEPT ![r] = @ \cup {i}]
  /\ wakeRequested' = [wakeRequested EXCEPT ![r] = TRUE]
  /\ IF Running(r) THEN UNCHANGED timer ELSE Arm(r, "zero")
  /\ UNCHANGED <<table, held, life, stopped, step, batch, seen, client,
                 before, tries, faults>>

-----------------------------------------------------------------------------
(***************************************************************************)
(* The polling loop.                                                       *)
(***************************************************************************)

Tick(r) ==
  /\ timer[r] # "none"
  /\ timer' = [timer EXCEPT ![r] = "none"]
  /\ IF Running(r) \/ stopped[r]
       THEN UNCHANGED <<step, wakeRequested>>
       ELSE /\ step' = [step EXCEPT ![r] = "claiming"]
            /\ wakeRequested' = [wakeRequested EXCEPT ![r] = FALSE]
  /\ UNCHANGED <<table, held, life, stopped, batch, seen, client, owed,
                 history, faults>>

Claim(r) ==
  LET claimed == Oldest(Pending, BatchSize)
      counted == CountedByClaim(claimed)
  IN  /\ step[r] = "claiming"
      /\ attempts' = counted
      /\ woken' = [woken EXCEPT ![r] = {}]
      /\ Proceed(r, claimed,
                 [i \in Record |-> IF i \in claimed THEN counted[i] ELSE 0])
      /\ UNCHANGED <<stored, published, dead, held, life, wakeRequested,
                     stopped, client, owed, before, faults>>

\* claimBatch throws; its transaction, where it has one, leaves nothing.
ClaimFails(r) ==
  /\ step[r] = "claiming"
  /\ Fault
  /\ woken' = [woken EXCEPT ![r] = {}]
  /\ EndTick(r)
  /\ UNCHANGED <<table, held, life, wakeRequested, stopped, client, owed, before>>

MarkPublished(r) ==
  LET i == Current(r)
  IN  /\ step[r] = "marking"
      /\ published' = published \cup {i}
      /\ attempts' = Counted(i)
      /\ Proceed(r, batch[r] \ {i}, seen[r])
      /\ UNCHANGED <<stored, dead, held, life, wakeRequested, stopped, client,
                     owed, before, woken, faults>>

\* markPublished rejects, before or after its update took effect, and the
\* catch block takes the row for one whose publication failed.
MarkPublishedThrows(r) ==
  LET i == Current(r)
  IN  /\ step[r] = "marking"
      /\ Fault
      /\ \/ UNCHANGED <<published, attempts>>
         \/ /\ published' = published \cup {i}
            /\ attempts' = Counted(i)
      /\ step' = [step EXCEPT ![r] = FailStep(seen[r][i])]
      /\ UNCHANGED <<stored, dead, held, life, timer, wakeRequested, stopped,
                     batch, seen, client, owed, history>>

MarkFailed(r) ==
  LET i == Current(r)
  IN  /\ step[r] = "failing"
      /\ attempts' = Counted(i)
      /\ Proceed(r, batch[r] \ {i}, seen[r])
      /\ UNCHANGED <<stored, published, dead, held, life, wakeRequested,
                     stopped, client, owed, before, woken, faults>>

MarkDead(r) ==
  LET i == Current(r)
  IN  /\ step[r] = "dying"
      /\ dead' = dead \cup {i}
      /\ attempts' = Counted(i)
      /\ Proceed(r, batch[r] \ {i}, seen[r])
      /\ UNCHANGED <<stored, published, held, life, wakeRequested, stopped,
                     client, owed, before, woken, faults>>

\* markFailed or markDead rejects inside the catch block: the rest of the
\* batch is abandoned to the outer catch.
MarkThrows(r) ==
  LET i == Current(r)
  IN  /\ step[r] \in {"failing", "dying"}
      /\ Fault
      /\ \/ UNCHANGED <<dead, attempts>>
         \/ /\ dead' = IF step[r] = "dying" THEN dead \cup {i} ELSE dead
            /\ attempts' = Counted(i)
      /\ EndTick(r)
      /\ UNCHANGED <<stored, published, held, life, wakeRequested, stopped,
                     client, owed, before, woken>>

-----------------------------------------------------------------------------
(***************************************************************************)
(* RabbitMQClient.publish and the confirm channel under it.  While the     *)
(* link is down a message waits in the channel wrapper, and one that was   *)
(* not confirmed is sent again after the reconnect.                        *)
(***************************************************************************)

BrokerAccepts(r) ==
  /\ step[r] = "sending"
  /\ linked[r]
  /\ held' = [held EXCEPT ![Current(r)] = @ + 1]
  /\ step' = [step EXCEPT ![r] = "confirming"]
  /\ UNCHANGED <<table, life, timer, wakeRequested, stopped, batch, seen,
                 client, owed, history, faults>>

\* Slip: publish is not awaited, so an unsent message counts as confirmed.
ConfirmsUnsent(r) ==
  /\ step[r] \in {"sending", "confirming"}
  /\ step' = [step EXCEPT ![r] = "marking"]
  /\ UNCHANGED <<table, held, life, timer, wakeRequested, stopped, batch, seen,
                 client, owed, history, faults>>

BrokerConfirms(r) ==
  /\ step[r] = "confirming"
  /\ step' = [step EXCEPT ![r] = "marking"]
  /\ UNCHANGED <<table, held, life, timer, wakeRequested, stopped, batch, seen,
                 client, owed, history, faults>>

\* A negative confirm.
BrokerRejects(r) ==
  /\ step[r] = "sending"
  /\ linked[r]
  /\ step' = [step EXCEPT ![r] = FailStep(seen[r][Current(r)])]
  /\ UNCHANGED <<table, held, life, timer, wakeRequested, stopped, batch, seen,
                 client, owed, history, faults>>

Disconnect(r) ==
  /\ Alive(r)
  /\ open[r] /\ linked[r]
  /\ Fault
  /\ linked' = [linked EXCEPT ![r] = FALSE]
  /\ step' = [step EXCEPT ![r] = IF @ = "confirming" THEN "sending" ELSE @]
  /\ UNCHANGED <<table, held, life, timer, wakeRequested, stopped, batch, seen,
                 open, owed, history>>

Reconnect(r) ==
  /\ ~linked[r]
  /\ open[r]
  /\ linked' = [linked EXCEPT ![r] = TRUE]
  /\ UNCHANGED <<table, held, process, open, owed, history, faults>>

-----------------------------------------------------------------------------
(***************************************************************************)
(* Life of a process.  On SIGTERM the onModuleDestroy hooks of the relay   *)
(* and of the client run; neither waits for the tick.                      *)
(***************************************************************************)

GoDown(r) ==
  /\ life' = [life EXCEPT ![r] = "down"]
  /\ timer' = [timer EXCEPT ![r] = "none"]
  /\ wakeRequested' = [wakeRequested EXCEPT ![r] = FALSE]
  /\ stopped' = [stopped EXCEPT ![r] = FALSE]
  /\ step' = [step EXCEPT ![r] = "idle"]
  /\ batch' = [batch EXCEPT ![r] = {}]
  /\ seen' = [seen EXCEPT ![r] = Zeros]
  /\ open' = [open EXCEPT ![r] = TRUE]
  /\ linked' = [linked EXCEPT ![r] = TRUE]
  /\ owed' = [owed EXCEPT ![r] = {}]
  /\ woken' = [woken EXCEPT ![r] = {}]
  /\ UNCHANGED <<table, held, before, tries>>

Crash(r) ==
  /\ Alive(r)
  /\ Fault
  /\ GoDown(r)

Terminate(r) ==
  /\ life[r] = "up"
  /\ Fault
  /\ life' = [life EXCEPT ![r] = "term"]
  /\ UNCHANGED <<table, held, timer, wakeRequested, stopped, step, batch, seen,
                 client, owed, history>>

\* onModuleDestroy of the relay.
Stop(r) ==
  /\ life[r] = "term"
  /\ ~stopped[r]
  /\ stopped' = [stopped EXCEPT ![r] = TRUE]
  /\ timer' = [timer EXCEPT ![r] = "none"]
  /\ UNCHANGED <<table, held, life, wakeRequested, step, batch, seen, client,
                 owed, history, faults>>

\* onModuleDestroy of the client: the wrapper rejects what it has not seen
\* confirmed.
Close(r) ==
  /\ life[r] = "term"
  /\ open[r]
  /\ open' = [open EXCEPT ![r] = FALSE]
  /\ step' = [step EXCEPT ![r] = IF @ \in {"sending", "confirming"}
                                   THEN FailStep(seen[r][Current(r)]) ELSE @]
  /\ UNCHANGED <<table, held, life, timer, wakeRequested, stopped, batch, seen,
                 linked, owed, history, faults>>

Exit(r) ==
  /\ life[r] = "term"
  /\ stopped[r] /\ ~open[r]
  /\ GoDown(r)
  /\ UNCHANGED faults

\* onModuleInit.
Start(r) ==
  /\ life[r] = "down"
  /\ life' = [life EXCEPT ![r] = "up"]
  /\ timer' = [timer EXCEPT ![r] = "zero"]
  /\ UNCHANGED <<table, held, wakeRequested, stopped, step, batch, seen,
                 client, owed, history, faults>>

-----------------------------------------------------------------------------
Init ==
  /\ stored = {} /\ published = {} /\ dead = {}
  /\ attempts = Zeros
  /\ held = Zeros
  /\ life = [r \in Relay |-> "up"]
  /\ timer = [r \in Relay |-> "zero"]
  /\ wakeRequested = [r \in Relay |-> FALSE]
  /\ stopped = [r \in Relay |-> FALSE]
  /\ step = [r \in Relay |-> "idle"]
  /\ batch = [r \in Relay |-> {}]
  /\ seen = [r \in Relay |-> Zeros]
  /\ open = [r \in Relay |-> TRUE]
  /\ linked = [r \in Relay |-> TRUE]
  /\ owed = [r \in Relay |-> {}]
  /\ before = [i \in Record |-> {}]
  /\ woken = [r \in Relay |-> {}]
  /\ tries = Zeros
  /\ faults = 0

Loop(r) ==
  Tick(r) \/ Claim(r) \/ MarkPublished(r) \/ MarkFailed(r) \/ MarkDead(r)

Channel(r) ==
  BrokerAccepts(r) \/ BrokerConfirms(r) \/ BrokerRejects(r) \/ Reconnect(r)

Shutdown(r) == Stop(r) \/ Close(r) \/ Exit(r)

Failure(r) ==
  \/ ClaimFails(r) \/ MarkPublishedThrows(r) \/ MarkThrows(r)
  \/ Disconnect(r) \/ Crash(r) \/ Terminate(r)

Next ==
  \E r \in Relay :
    \/ Loop(r) \/ Channel(r) \/ Shutdown(r) \/ Failure(r) \/ Start(r)
    \/ \E i \in Record : Commit(r, i) \/ Wake(r, i)

Spec == Init /\ [][Next]_vars

\* The event loop runs what is ready, the broker answers and the client
\* reconnects every 5 s, a shutdown ends, and the container runtime restarts
\* what went down.  Nothing obliges a request to arrive, or a wake() to follow
\* its commit.
Fairness ==
  \A r \in Relay :
    /\ WF_vars(Loop(r))
    /\ WF_vars(Channel(r))
    /\ WF_vars(Shutdown(r))
    /\ WF_vars(Start(r))

FairSpec == Spec /\ Fairness

-----------------------------------------------------------------------------
(***************************************************************************)
(* Properties.                                                             *)
(***************************************************************************)

\* The polling loop neither dies nor doubles: a live relay that was not
\* stopped has either one tick running or one timer armed, and a stopped one
\* has no timer left (scheduleNextTick, the finally block, onModuleDestroy).
OneLoop ==
  \A r \in Relay :
    IF Alive(r) /\ ~stopped[r]
      THEN Running(r) <=> timer[r] = "none"
      ELSE timer[r] = "none"

\* No wake-up is lost: from wake() to the claim that follows, the next claim
\* is under way or due without waiting for the poll interval, whatever the
\* tick that was running meanwhile did (wakeRequested).
WakeNotLost ==
  \A r \in Relay :
    woken[r] # {} /\ ~stopped[r] =>
      \/ timer[r] = "zero"
      \/ step[r] = "claiming"
      \/ Running(r) /\ wakeRequested[r]

\* At-least-once, and no more often than something went wrong: the broker
\* holds at most one copy of an event for each relay over the table, plus one
\* for each crash, lost link, failed query or shutdown.
DuplicatesNeedFaults ==
  \A i \in Record : held[i] <= Cardinality(Relay) + faults

\* The retry limit cannot be evaded: every call of publishRecord is on the
\* attempts column.  OutboxRepository has counted it before the call;
\* PrismaOutboxStore may still have the running ones to count, and loses one
\* for each fault at most.
TriesAreCounted ==
  \A i \in Record :
    tries[i] <= attempts[i] +
      (IF CountsOnClaim THEN 0
       ELSE faults + Cardinality({r \in Relay : batch[r] # {} /\ Current(r) = i}))

\* A row is given up only after MaxAttempts calls of publishRecord
\* (the test "marks record dead when attempts reach max").
DeadIsExhausted ==
  \A i \in dead : tries[i] >= MaxAttempts

\* With one relay and nothing failing but the publication itself, an event
\* given up never reached the broker: what the dead rows list is what the
\* consumers miss.
DeadMeansUndelivered ==
  Cardinality(Relay) = 1 /\ faults = 0 => \A i \in dead : held[i] = 0

\* An event overtakes an older one that was committed before it only when
\* the older one was tried already (claimBatch orders by createdAt, and the
\* loop publishes in that order).
OvertakenOnlyAfterTry ==
  \A i, j \in Record :
    i < j /\ i \in before[j] /\ held[j] > 0 => tries[i] > 0

\* Two relays over one table never work on the same row (ARCHITECTURE.md:
\* the claim is SELECT ... FOR UPDATE SKIP LOCKED).
ClaimsAreExclusive ==
  \A r1, r2 \in Relay : r1 # r2 => batch[r1] \cap batch[r2] = {}

Abstract == INSTANCE Outbox

\* The relay implements the abstract outbox.
ImplementsOutbox == Abstract!Spec

\* Every committed row is published or given up in the end, across crashes,
\* lost links and shutdowns.
RowsSettle ==
  \A i \in Record : i \in stored ~> i \in published \cup dead
=============================================================================
