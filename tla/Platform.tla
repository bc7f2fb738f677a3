------------------------------ MODULE Platform ------------------------------
(***************************************************************************)
(* The three services over one broker: order-service and tracking-service  *)
(* publish through their outboxes, tracking-service and                    *)
(* notification-service consume from the queues bound in                   *)
(* docker/rabbitmq/definitions.json.                                       *)
(*                                                                         *)
(* An outbox is Outbox and a consumer is Inbox here, which OutboxRelay and *)
(* IdempotentConsumer implement; NotificationDispatch and Shipments have   *)
(* the detail of the effects.  What remains is how the parts interlock:    *)
(* what is validated where, which commit each event needs, and where each  *)
(* event goes.                                                             *)
(***************************************************************************)
EXTENDS OrderRules, FiniteSets

CONSTANTS
  Order,            \* POST /orders requests
  Request,          \* [Order -> what the request says], as OrderRules reads it
  Canceller,        \* places for concurrent runs of cancel-order
  Change,           \* status updates of shipments
  ChangeOf,         \* [Change -> Order]: the order of the shipment
  NoOrder,
  MaxCopies         \* bound on the copies the relays make of one message

ASSUME PlatformAssumption ==
  /\ Request \in [Order -> AnyRequest]
  /\ ChangeOf \in [Change -> Order]
  /\ NoOrder \notin Order
  /\ MaxCopies \in Nat \ {0}

VARIABLES
  orders,           \* [Order -> status of the row, or "none"]
  cancels,          \* [Canceller -> the order it read as PENDING, or NoOrder]
  orderStored, orderHeld, orderPublished, orderDead,      \* outbox of orders
  changeStored, changeHeld, changePublished, changeDead,  \* outbox of tracking
  trackingQueue,    \* tracking.order.created: place of each copy
  shipments,        \* rows of shipments for each order
  mailQueue,        \* notification.order.created
  mailed,           \* e-mails for each order
  columnsMatch,     \* notification_db has the columns the raw SQL names
  textQueue,        \* notification.shipment.status_changed
  unreadable,       \* changes shipmentStatusChangedEventSchema refuses
  texted            \* text messages for each change

orderTable   == <<orders, cancels>>
orderOutbox  == <<orderStored, orderHeld, orderPublished, orderDead>>
changeOutbox == <<changeStored, changeHeld, changePublished, changeDead,
                  unreadable>>
tracking     == <<trackingQueue, shipments>>
mails        == <<mailQueue, mailed, columnsMatch>>
texts        == <<textQueue, texted>>
vars == <<orderTable, orderOutbox, changeOutbox, tracking, mails, texts>>

OrderOutbox ==
  INSTANCE Outbox WITH
    Record <- Order, stored <- orderStored, held <- orderHeld,
    published <- orderPublished, dead <- orderDead

ChangeOutbox ==
  INSTANCE Outbox WITH
    Record <- Change, stored <- changeStored, held <- changeHeld,
    published <- changePublished, dead <- changeDead

OrderCopy == Order \X (1 .. MaxCopies)

ChangeCopy == Change \X (1 .. MaxCopies)

\* The envelope, and with it eventId, is built once and stored: all copies of
\* a row carry the same event.
OrderOf == [c \in OrderCopy |-> c[1]]

ChangeIn == [c \in ChangeCopy |-> c[1]]

\* What order-service and both consumers parse with the same schema.
Parsable ==
  {o \in Order : SchemaAccepts(Place(Request[o]), CorrelationId(Request[o]))}

\* A shipment row is the effect of order.created, and so on.
Tracking ==
  INSTANCE Inbox WITH
    Copy <- OrderCopy, Event <- Order, EventOf <- OrderOf,
    Buriable <- Order \ Parsable, place <- trackingQueue, applied <- shipments

Mails ==
  INSTANCE Inbox WITH
    Copy <- OrderCopy, Event <- Order, EventOf <- OrderOf,
    Buriable <- Order \ Parsable, place <- mailQueue, applied <- mailed

Texts ==
  INSTANCE Inbox WITH
    Copy <- ChangeCopy, Event <- Change, EventOf <- ChangeIn,
    Buriable <- Change, place <- textQueue, applied <- texted

Places == {"unsent", "pending", "gone", "dlq"}

TypeOK ==
  /\ orders \in [Order -> {"none", "PENDING", "CANCELLED"}]
  /\ cancels \in [Canceller -> Order \cup {NoOrder}]
  /\ orderStored \subseteq Order /\ orderPublished \subseteq Order
  /\ orderDead \subseteq Order
  /\ orderHeld \in [Order -> 0 .. MaxCopies]
  /\ changeStored \subseteq Change /\ changePublished \subseteq Change
  /\ changeDead \subseteq Change
  /\ changeHeld \in [Change -> 0 .. MaxCopies]
  /\ trackingQueue \in [OrderCopy -> Places]
  /\ mailQueue \in [OrderCopy -> Places]
  /\ textQueue \in [ChangeCopy -> Places]
  /\ unreadable \subseteq Change
  /\ shipments \in [Order -> Nat]
  /\ mailed \in [Order -> Nat]
  /\ texted \in [Change -> Nat]
  /\ columnsMatch \in BOOLEAN

-----------------------------------------------------------------------------
(***************************************************************************)
(* order-service.                                                          *)
(***************************************************************************)

\* What the pipe, Order.place and the columns let through.
Acceptable ==
  {o \in Order : /\ DtoValid(Request[o])
                /\ Placeable(Request[o])
                /\ Storable(Place(Request[o]))}

\* Order.place: a new order is PENDING.
Placed(o) == [orders EXCEPT ![o] = "PENDING"]

\* Slip: the event is not parsed before it is stored.
CreateUnvalidated(o) ==
  /\ o \in Acceptable
  /\ orders[o] = "none"
  /\ orders' = Placed(o)
  /\ OrderOutbox!Store(o)
  /\ UNCHANGED <<cancels, changeOutbox, tracking, mails, texts>>

\* A request that Order.place, the schema or an insert of saveNew refuses
\* changes nothing.
Create(o) ==
  /\ o \in Acceptable \cap Parsable
  /\ orders[o] = "none"
  /\ orders' = Placed(o)
  /\ OrderOutbox!Store(o)
  /\ UNCHANGED <<cancels, changeOutbox, tracking, mails, texts>>

\* The aggregate as findById builds it from the rows of an order.
Found(o) == Rehydrated(Place(Request[o]))

\* What GET /orders/:id answers.
View(o) ==
  [status     |-> orders[o],
   totalCents |-> TotalCents(Found(o)),
   items      |-> Found(o).items]

\* What the constructor takes when findById builds the order again.
Restorable == {o \in Order : Rebuildable(Place(Request[o]))}

\* Order.cancel throws for any other status.
Cancellable(o) == o \in Restorable /\ orders[o] = "PENDING"

\* cancel-order reads the order and cancels what it read.
FindToCancel(h, o) ==
  /\ cancels[h] = NoOrder
  /\ Cancellable(o)
  /\ cancels' = [cancels EXCEPT ![h] = o]
  /\ UNCHANGED <<orders, orderOutbox, changeOutbox, tracking, mails, texts>>

\* Slip: the aggregate confirms instead of cancelling.
UpdateConfirmed(h) ==
  /\ cancels[h] # NoOrder
  /\ orders' = [orders EXCEPT ![cancels[h]] = "CONFIRMED"]
  /\ cancels' = [cancels EXCEPT ![h] = NoOrder]
  /\ UNCHANGED <<orderOutbox, changeOutbox, tracking, mails, texts>>

\* cancel-order writes what it decided, whatever the row is by now.
UpdateCancelled(h) ==
  /\ cancels[h] # NoOrder
  /\ orders' = [orders EXCEPT ![cancels[h]] = "CANCELLED"]
  /\ cancels' = [cancels EXCEPT ![h] = NoOrder]
  /\ UNCHANGED <<orderOutbox, changeOutbox, tracking, mails, texts>>

\* The request of h fails before its update.
CancelFails(h) ==
  /\ cancels[h] # NoOrder
  /\ cancels' = [cancels EXCEPT ![h] = NoOrder]
  /\ UNCHANGED <<orders, orderOutbox, changeOutbox, tracking, mails, texts>>

-----------------------------------------------------------------------------
(***************************************************************************)
(* The relays and the bindings: one publication of order.created puts a    *)
(* copy into two queues, one of shipment.status_changed into one.          *)
(***************************************************************************)

\* Slip: the binding of notification.order.created is missing.
RouteOrderToTracking(c) == Tracking!Send(c) /\ UNCHANGED mails

RouteOrder(c) == Tracking!Send(c) /\ Mails!Send(c)

PublishOrder(o) ==
  /\ orderHeld[o] < MaxCopies
  /\ OrderOutbox!Deliver(o)
  /\ RouteOrder(<<o, orderHeld[o] + 1>>)
  /\ UNCHANGED <<columnsMatch, orderTable, changeOutbox, texts>>

MarkOrder(o) ==
  /\ OrderOutbox!MarkPublished(o) \/ OrderOutbox!GiveUp(o)
  /\ UNCHANGED <<orderTable, changeOutbox, tracking, mails, texts>>

PublishChange(d) ==
  /\ changeHeld[d] < MaxCopies
  /\ ChangeOutbox!Deliver(d)
  /\ Texts!Send(<<d, changeHeld[d] + 1>>)
  /\ UNCHANGED <<unreadable, orderTable, orderOutbox, tracking, mails>>

MarkChange(d) ==
  /\ ChangeOutbox!MarkPublished(d) \/ ChangeOutbox!GiveUp(d)
  /\ UNCHANGED <<unreadable, orderTable, orderOutbox, tracking, mails, texts>>

-----------------------------------------------------------------------------
(***************************************************************************)
(* The consumers.  An event a schema refuses has no effect.                *)
(*                                                                         *)
(* The statements of notification-service name columns in snake_case.      *)
(* prisma db push makes them in camelCase from prisma/schema.prisma, and   *)
(* nothing in the repository renames them: columnsMatch is FALSE for that  *)
(* database, whose first INSERT fails every run of both consumers, so that *)
(* a message is requeued for ever.  It is TRUE for a database somebody     *)
(* altered.  No step changes it.                                           *)
(***************************************************************************)

CreateShipment(o) ==
  /\ o \in Parsable
  /\ Tracking!Apply(o)
  /\ UNCHANGED <<orderTable, orderOutbox, changeOutbox, mails, texts>>

MailCustomer(o) ==
  /\ columnsMatch
  /\ o \in Parsable
  /\ Mails!Apply(o)
  /\ UNCHANGED <<columnsMatch, orderTable, orderOutbox, changeOutbox, tracking, texts>>

Readable(d) == d \notin unreadable

TextCustomer(d) ==
  /\ columnsMatch
  /\ Readable(d)
  /\ Texts!Apply(d)
  /\ UNCHANGED <<orderTable, orderOutbox, changeOutbox, tracking, mails>>

SettleTracking(c) ==
  /\ Tracking!Discard(c) \/ Tracking!Bury(c)
  /\ UNCHANGED <<orderTable, orderOutbox, changeOutbox, mails, texts>>

SettleMail(c) ==
  /\ Mails!Discard(c) \/ Mails!Bury(c)
  /\ UNCHANGED <<columnsMatch, orderTable, orderOutbox, changeOutbox, tracking, texts>>

\* Slip: a message that does not parse is acknowledged.
AckUnread(c) ==
  /\ \/ Texts!Discard(c)
     \/ ~Readable(c[1]) /\ Texts!Move(c, "pending", "gone")
  /\ UNCHANGED <<orderTable, orderOutbox, changeOutbox, tracking, mails>>

SettleText(c) ==
  /\ \/ Texts!Discard(c)
     \/ ~Readable(c[1]) /\ Texts!Bury(c)
  /\ UNCHANGED <<orderTable, orderOutbox, changeOutbox, tracking, mails>>

-----------------------------------------------------------------------------
(***************************************************************************)
(* tracking-service: updateShipmentStatus, which needs the shipment.       *)
(***************************************************************************)

\* Slip: the check for a missing shipment is dropped.
UpdateMissingShipment(d) ==
  /\ ChangeOutbox!Store(d)
  /\ unreadable' \in {unreadable, unreadable \cup {d}}
  /\ UNCHANGED <<orderTable, orderOutbox, tracking, mails, texts>>

\* Nothing checks the location the caller gives.
UpdateShipment(d) ==
  /\ shipments[ChangeOf[d]] > 0
  /\ ChangeOutbox!Store(d)
  /\ unreadable' \in {unreadable, unreadable \cup {d}}
  /\ UNCHANGED <<orderTable, orderOutbox, tracking, mails, texts>>

-----------------------------------------------------------------------------
Init ==
  /\ orders = [o \in Order |-> "none"]
  /\ cancels = [h \in Canceller |-> NoOrder]
  /\ OrderOutbox!Init /\ ChangeOutbox!Init
  /\ Tracking!Init /\ Mails!Init /\ Texts!Init
  /\ unreadable = {}
  /\ columnsMatch \in BOOLEAN

OrderService ==
  \/ \E o \in Order : Create(o) \/ PublishOrder(o) \/ MarkOrder(o)
  \/ \E h \in Canceller, o \in Order : FindToCancel(h, o)
  \/ \E h \in Canceller : UpdateCancelled(h) \/ CancelFails(h)

TrackingService ==
  \/ \E o \in Order : CreateShipment(o)
  \/ \E c \in OrderCopy : SettleTracking(c)
  \/ \E d \in Change : UpdateShipment(d) \/ PublishChange(d) \/ MarkChange(d)

NotificationService ==
  \/ \E o \in Order : MailCustomer(o)
  \/ \E c \in OrderCopy : SettleMail(c)
  \/ \E d \in Change : TextCustomer(d)
  \/ \E c \in ChangeCopy : SettleText(c)

Next == OrderService \/ TrackingService \/ NotificationService

Spec == Init /\ [][Next]_vars

\* A relay settles its rows (RowsSettle of OutboxRelay) and a consumer its
\* messages (GoodSettle of IdempotentConsumer), those of notification-service
\* only where its columns match; requests are not obliged to come.
Fairness ==
  /\ WF_vars(\E o \in Order \ (orderPublished \cup orderDead) :
                PublishOrder(o) \/ MarkOrder(o))
  /\ WF_vars(\E d \in Change \ (changePublished \cup changeDead) :
                PublishChange(d) \/ MarkChange(d))
  /\ WF_vars(\/ \E o \in Order : CreateShipment(o)
             \/ \E c \in OrderCopy : SettleTracking(c))
  /\ WF_vars(columnsMatch /\ NotificationService)

FairSpec == Spec /\ Fairness

-----------------------------------------------------------------------------
(***************************************************************************)
(* Properties.                                                             *)
(***************************************************************************)

\* Nothing happens without its cause, across four commits and two queues: a
\* shipment and an e-mail are of an order that was committed and is still
\* there, cancelled or not, and a text message is of a shipment that exists.
EffectsHaveCause ==
  /\ \A o \in Order : shipments[o] + mailed[o] > 0 => orders[o] # "none"
  /\ \A d \in Change : texted[d] > 0 =>
       shipments[ChangeOf[d]] > 0 /\ orders[ChangeOf[d]] # "none"

\* No message of an order ends in a dead-letter queue: what the consumers
\* would refuse, create-order refused (orderCreatedEventSchema on both sides).
OrdersAreReadable ==
  \A c \in OrderCopy : trackingQueue[c] # "dlq" /\ mailQueue[c] # "dlq"

\* The sum of the products, as integers.
ExactTotal(r) ==
  LET sum[n \in 0 .. Len(r.items)] ==
        IF n = 0 THEN 0
        ELSE sum[n - 1] + r.items[n].quantity * r.items[n].price
  IN  sum[Len(r.items)]

\* What is committed can be read again, and says what was asked for: the order
\* of the request can be built from its rows (findById, with the rules of
\* OrderItem.create and the constructor), GET /orders/:id shows the items that
\* are in the event, and its totalCents, like that of the row and the event, is
\* the sum of the products and never a double that was rounded.
TotalsAreExact ==
  \A o \in Order : orders[o] # "none" =>
    /\ o \in Restorable
    /\ View(o).items = Place(Request[o]).items
    /\ View(o).totalCents = ExactTotal(Request[o])
    /\ TotalCents(Place(Request[o])) = ExactTotal(Request[o])

NeverSent(i, dead, held) == i \in dead /\ held[i] = 0

\* A committed order gets its shipment, unless the relay gave its row up before
\* the broker had it; and its customer the mail, if notification_db has the
\* columns the consumer writes.  If not, the order still has a message in the
\* queue of the mails, whatever was settled since.
OrdersArrive ==
  \A o \in Order :
    orders[o] # "none" ~>
      \/ /\ shipments[o] = 1
         /\ IF columnsMatch
              THEN mailed[o] = 1
              ELSE \E n \in 1 .. MaxCopies : mailQueue[<<o, n>>] = "pending"
      \/ NeverSent(o, orderDead, orderHeld)

\* What becomes of a change of a shipment, unless the relay gave its row up: it
\* is told to the customer, or found in the dead-letter queue if the schema
\* refuses it.  If the columns do not match it may also wait in the queue, where
\* those that fail for ever can keep the consumer from it, and is not lost.
ChangesArrive ==
  \A d \in Change :
    d \in changeStored ~>
      \/ Readable(d) /\ columnsMatch /\ texted[d] = 1
      \/ ~Readable(d) /\ \E n \in 1 .. MaxCopies : textQueue[<<d, n>>] = "dlq"
      \/ ~columnsMatch /\ \E n \in 1 .. MaxCopies : textQueue[<<d, n>>] = "pending"
      \/ NeverSent(d, changeDead, changeHeld)
=============================================================================
