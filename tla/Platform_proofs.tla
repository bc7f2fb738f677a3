--------------------------- MODULE Platform_proofs ---------------------------
(***************************************************************************)
(* Theorems about Platform, for any orders, changes, requests and number   *)
(* of copies, with their proofs.                                           *)
(***************************************************************************)
EXTENDS Platform, TLAPS, WellFoundedInduction

-----------------------------------------------------------------------------
(***************************************************************************)
(* The chain from a message to the commit it comes from.                   *)
(***************************************************************************)

StoredIsCommitted ==
  \A o \in Order : o \in orderStored => orders[o] # "none" /\ o \in Parsable

OrderHeldIsStored ==
  \A o \in Order : orderHeld[o] > 0 => o \in orderStored

OrderSentIsHeld ==
  \A c \in OrderCopy :
    trackingQueue[c] # "unsent" \/ mailQueue[c] # "unsent" => orderHeld[c[1]] > 0

OrderEffectIsStored ==
  \A o \in Order : shipments[o] > 0 \/ mailed[o] > 0 => o \in orderStored

ChangeStoredIsShipped ==
  \A d \in Change : d \in changeStored => shipments[ChangeOf[d]] > 0

ChangeHeldIsStored ==
  \A d \in Change : changeHeld[d] > 0 => d \in changeStored

ChangeSentIsHeld ==
  \A c \in ChangeCopy : textQueue[c] # "unsent" => changeHeld[c[1]] > 0

TextIsStored ==
  \A d \in Change : texted[d] > 0 => d \in changeStored

OrderChain ==
  /\ StoredIsCommitted /\ OrderHeldIsStored /\ OrderSentIsHeld
  /\ OrderEffectIsStored

ChangeChain ==
  ChangeStoredIsShipped /\ ChangeHeldIsStored /\ ChangeSentIsHeld /\ TextIsStored

Chain == TypeOK /\ OrderChain /\ ChangeChain /\ OrdersAreReadable

\* A copy is an order, or a change, with a number.
LEMMA CopyParts ==
  /\ \A c \in OrderCopy : c[1] \in Order /\ OrderOf[c] = c[1]
  /\ \A c \in ChangeCopy : c[1] \in Change /\ ChangeIn[c] = c[1]
  /\ \A o \in Order, n \in 1 .. MaxCopies :
       <<o, n>> \in OrderCopy /\ <<o, n>>[1] = o
  /\ \A d \in Change, n \in 1 .. MaxCopies :
       <<d, n>> \in ChangeCopy /\ <<d, n>>[1] = d
BY DEF OrderCopy, ChangeCopy, OrderOf, ChangeIn

\* The number of the next copy is in range.
LEMMA NextCopy ==
  ASSUME NEW n \in 0 .. MaxCopies, n < MaxCopies
  PROVE  n + 1 \in 1 .. MaxCopies /\ n + 1 \in 0 .. MaxCopies /\ n + 1 > 0
BY PlatformAssumption

-----------------------------------------------------------------------------
(***************************************************************************)
(* Each action, on what it can disturb.                                    *)
(***************************************************************************)

LEMMA CreateKeeps ==
  ASSUME Chain, NEW o \in Order, Create(o)
  PROVE  Chain'
<1> USE DEF changeOutbox, tracking, mails, texts
<1>1. TypeOK'
  BY DEF Chain, TypeOK, Create, Placed, OrderOutbox!Store
<1>2. OrderChain'
  BY CopyParts
  DEF Chain, TypeOK, Create, Placed, OrderOutbox!Store, OrderChain,
      StoredIsCommitted, OrderHeldIsStored, OrderSentIsHeld, OrderEffectIsStored
<1>3. ChangeChain' /\ OrdersAreReadable'
  BY DEF Chain, Create, ChangeChain, OrdersAreReadable, ChangeStoredIsShipped,
         ChangeHeldIsStored, ChangeSentIsHeld, TextIsStored
<1> QED
  BY <1>1, <1>2, <1>3 DEF Chain

LEMMA CancelKeeps ==
  ASSUME Chain, NEW h \in Canceller,
         \/ \E o \in Order : FindToCancel(h, o)
         \/ UpdateCancelled(h) \/ CancelFails(h)
  PROVE  Chain'
<1> USE DEF orderOutbox, changeOutbox, tracking, mails, texts
<1>1. /\ cancels' \in [Canceller -> Order \cup {NoOrder}]
      /\ orders' \in [Order -> {"none", "PENDING", "CANCELLED"}]
      /\ \A o \in Order : orders[o] # "none" => orders'[o] # "none"
  <2>1. CASE \E o \in Order : FindToCancel(h, o)
    BY <2>1 DEF Chain, TypeOK, FindToCancel
  <2>2. CASE UpdateCancelled(h)
    BY <2>2 DEF Chain, TypeOK, UpdateCancelled
  <2>3. CASE CancelFails(h)
    BY <2>3 DEF Chain, TypeOK, CancelFails
  <2> QED
    BY <2>1, <2>2, <2>3
<1>2. UNCHANGED <<orderOutbox, changeOutbox, tracking, mails, texts>>
  BY DEF FindToCancel, UpdateCancelled, CancelFails
<1>3. TypeOK'
  BY <1>1, <1>2 DEF Chain, TypeOK
<1>4. OrderChain'
  BY <1>1, <1>2
  DEF Chain, OrderChain, StoredIsCommitted, OrderHeldIsStored,
      OrderSentIsHeld, OrderEffectIsStored
<1>5. ChangeChain' /\ OrdersAreReadable'
  BY <1>2 DEF Chain, ChangeChain, OrdersAreReadable, ChangeStoredIsShipped,
              ChangeHeldIsStored, ChangeSentIsHeld, TextIsStored
<1> QED
  BY <1>3, <1>4, <1>5 DEF Chain

LEMMA PublishOrderKeeps ==
  ASSUME Chain, NEW o \in Order, PublishOrder(o)
  PROVE  Chain'
<1> USE DEF orderTable, changeOutbox, texts
<1> DEFINE c == <<o, orderHeld[o] + 1>>
<1>1. c \in OrderCopy /\ c[1] = o /\ orderHeld[o] + 1 \in 0 .. MaxCopies
  BY NextCopy, CopyParts DEF Chain, TypeOK, PublishOrder
<1>2. /\ o \in orderStored
      /\ orderHeld' = [orderHeld EXCEPT ![o] = orderHeld[o] + 1]
      /\ UNCHANGED <<orderStored, orderPublished, orderDead>>
  BY DEF PublishOrder, OrderOutbox!Deliver
<1>3. /\ trackingQueue' = [trackingQueue EXCEPT ![c] = "pending"]
      /\ mailQueue' = [mailQueue EXCEPT ![c] = "pending"]
      /\ UNCHANGED <<shipments, mailed, columnsMatch>>
  BY DEF PublishOrder, RouteOrder, Tracking!Send, Tracking!Move,
         Mails!Send, Mails!Move
<1>4. UNCHANGED <<orders, cancels, changeOutbox, texts>>
  BY DEF PublishOrder
<1> HIDE DEF c
<1>5. TypeOK'
  BY <1>1, <1>2, <1>3, <1>4 DEF Chain, TypeOK, Places
<1>6. OrderChain'
  <2>1. StoredIsCommitted' /\ OrderHeldIsStored' /\ OrderEffectIsStored'
    BY <1>1, <1>2, <1>3, <1>4
    DEF Chain, TypeOK, OrderChain, StoredIsCommitted, OrderHeldIsStored,
        OrderEffectIsStored
  <2>2. OrderSentIsHeld'
    <3> SUFFICES ASSUME NEW e \in OrderCopy,
                        trackingQueue'[e] # "unsent" \/ mailQueue'[e] # "unsent"
                 PROVE  orderHeld'[e[1]] > 0
      BY DEF OrderSentIsHeld
    <3>1. e[1] \in Order /\ orderHeld[o] \in Nat /\ orderHeld[e[1]] \in Nat
      BY CopyParts DEF Chain, TypeOK
    <3>2. CASE e = c
      BY <1>1, <1>2, <3>1, <3>2 DEF Chain, TypeOK
    <3>3. CASE e # c
      <4>1. orderHeld[e[1]] > 0
        BY <1>1, <1>3, <3>3 DEF Chain, OrderChain, OrderSentIsHeld, TypeOK
      <4> QED
        BY <1>2, <3>1, <4>1 DEF Chain, TypeOK
    <3> QED
      BY <3>2, <3>3
  <2> QED
    BY <2>1, <2>2 DEF OrderChain
<1>7. ChangeChain'
  BY <1>3, <1>4 DEF Chain, ChangeChain, ChangeStoredIsShipped,
     ChangeHeldIsStored, ChangeSentIsHeld, TextIsStored
<1>8. OrdersAreReadable'
  BY <1>1, <1>3 DEF Chain, TypeOK, OrdersAreReadable
<1> QED
  BY <1>5, <1>6, <1>7, <1>8 DEF Chain

LEMMA PublishChangeKeeps ==
  ASSUME Chain, NEW d \in Change, PublishChange(d)
  PROVE  Chain'
<1> USE DEF orderTable, orderOutbox, tracking, mails
<1> DEFINE c == <<d, changeHeld[d] + 1>>
<1>1. c \in ChangeCopy /\ c[1] = d /\ changeHeld[d] + 1 \in 0 .. MaxCopies
  BY NextCopy, CopyParts DEF Chain, TypeOK, PublishChange
<1>2. /\ d \in changeStored
      /\ changeHeld' = [changeHeld EXCEPT ![d] = changeHeld[d] + 1]
      /\ UNCHANGED <<changeStored, changePublished, changeDead, unreadable>>
  BY DEF PublishChange, ChangeOutbox!Deliver
<1>3. textQueue' = [textQueue EXCEPT ![c] = "pending"] /\ UNCHANGED texted
  BY DEF PublishChange, Texts!Send, Texts!Move
<1>4. UNCHANGED <<orders, cancels, orderOutbox, tracking, mails>>
  BY DEF PublishChange
<1> HIDE DEF c
<1>5. TypeOK'
  BY <1>1, <1>2, <1>3, <1>4 DEF Chain, TypeOK, Places
<1>6. OrderChain' /\ OrdersAreReadable'
  BY <1>4 DEF Chain, OrderChain, StoredIsCommitted, OrderHeldIsStored,
     OrderSentIsHeld, OrderEffectIsStored, OrdersAreReadable
<1>7. ChangeChain'
  <2>1. ChangeStoredIsShipped' /\ ChangeHeldIsStored' /\ TextIsStored'
    BY <1>2, <1>3, <1>4 DEF Chain, TypeOK, ChangeChain, ChangeStoredIsShipped,
       ChangeHeldIsStored, TextIsStored
  <2>2. ChangeSentIsHeld'
    <3> SUFFICES ASSUME NEW e \in ChangeCopy, textQueue'[e] # "unsent"
                 PROVE  changeHeld'[e[1]] > 0
      BY DEF ChangeSentIsHeld
    <3>1. e[1] \in Change /\ changeHeld[d] \in Nat /\ changeHeld[e[1]] \in Nat
      BY CopyParts DEF Chain, TypeOK
    <3>2. CASE e = c
      BY <1>1, <1>2, <3>1, <3>2 DEF Chain, TypeOK
    <3>3. CASE e # c
      <4>1. changeHeld[e[1]] > 0
        BY <1>1, <1>3, <3>3 DEF Chain, ChangeChain, ChangeSentIsHeld, TypeOK
      <4> QED
        BY <1>2, <3>1, <4>1 DEF Chain, TypeOK
    <3> QED
      BY <3>2, <3>3
  <2> QED
    BY <2>1, <2>2 DEF ChangeChain
<1> QED
  BY <1>5, <1>6, <1>7 DEF Chain

\* A mark touches publishedAt and deadAt only.
LEMMA MarkKeeps ==
  ASSUME Chain,
         \/ \E o \in Order : MarkOrder(o)
         \/ \E d \in Change : MarkChange(d)
  PROVE  Chain'
<1> USE DEF orderTable, orderOutbox, changeOutbox, tracking, mails, texts
<1>1. /\ UNCHANGED <<orders, cancels, orderStored, orderHeld>>
      /\ UNCHANGED <<changeStored, changeHeld, unreadable>>
      /\ UNCHANGED <<tracking, mails, texts>>
  BY DEF MarkOrder, MarkChange, OrderOutbox!MarkPublished, OrderOutbox!GiveUp,
         ChangeOutbox!MarkPublished, ChangeOutbox!GiveUp
<1>2. /\ orderPublished' \subseteq Order /\ orderDead' \subseteq Order
      /\ changePublished' \subseteq Change /\ changeDead' \subseteq Change
  BY DEF Chain, TypeOK, MarkOrder, MarkChange, OrderOutbox!MarkPublished,
         OrderOutbox!GiveUp, ChangeOutbox!MarkPublished, ChangeOutbox!GiveUp
<1>3. TypeOK'
  BY <1>1, <1>2 DEF Chain, TypeOK
<1>4. OrderChain' /\ OrdersAreReadable'
  BY <1>1 DEF Chain, OrderChain, StoredIsCommitted, OrderHeldIsStored,
     OrderSentIsHeld, OrderEffectIsStored, OrdersAreReadable
<1>5. ChangeChain'
  BY <1>1 DEF Chain, ChangeChain, ChangeStoredIsShipped, ChangeHeldIsStored,
     ChangeSentIsHeld, TextIsStored
<1> QED
  BY <1>3, <1>4, <1>5 DEF Chain

\* An order with a copy in a queue is stored.
LEMMA SentIsStored ==
  ASSUME Chain
  PROVE  /\ \A c \in OrderCopy :
              trackingQueue[c] # "unsent" \/ mailQueue[c] # "unsent"
                => c[1] \in orderStored
         /\ \A c \in ChangeCopy : textQueue[c] # "unsent" => c[1] \in changeStored
BY CopyParts DEF Chain, OrderChain, OrderSentIsHeld, OrderHeldIsStored,
   ChangeChain, ChangeSentIsHeld, ChangeHeldIsStored

\* The two effects of order.created.
LEMMA OrderEffectKeeps ==
  ASSUME Chain, NEW o \in Order, CreateShipment(o) \/ MailCustomer(o)
  PROVE  Chain'
<1> USE DEF orderTable, orderOutbox, changeOutbox, tracking, mails, texts
<1>1. o \in orderStored
  <2>1. CASE CreateShipment(o)
    <3>1. PICK c \in OrderCopy : OrderOf[c] = o /\ trackingQueue[c] # "unsent"
      BY <2>1 DEF CreateShipment, Tracking!Apply
    <3> QED
      BY <3>1, SentIsStored, CopyParts
  <2>2. CASE MailCustomer(o)
    <3>1. PICK c \in OrderCopy : OrderOf[c] = o /\ mailQueue[c] # "unsent"
      BY <2>2 DEF MailCustomer, Mails!Apply
    <3> QED
      BY <3>1, SentIsStored, CopyParts
  <2> QED
    BY <2>1, <2>2
<1>2. /\ shipments' \in [Order -> Nat] /\ mailed' \in [Order -> Nat]
      /\ \A i \in Order : shipments[i] > 0 => shipments'[i] > 0
      /\ \A i \in Order \ {o} : shipments'[i] = shipments[i] /\ mailed'[i] = mailed[i]
  BY DEF Chain, TypeOK, CreateShipment, MailCustomer, Tracking!Apply, Mails!Apply
<1>3. /\ UNCHANGED <<orders, cancels, orderOutbox, changeOutbox, texts>>
      /\ UNCHANGED <<trackingQueue, mailQueue, columnsMatch>>
  BY DEF CreateShipment, MailCustomer, Tracking!Apply, Mails!Apply
<1>4. TypeOK'
  BY <1>2, <1>3 DEF Chain, TypeOK
<1>5. OrderChain' /\ OrdersAreReadable'
  BY <1>1, <1>2, <1>3
  DEF Chain, OrderChain, StoredIsCommitted, OrderHeldIsStored,
      OrderSentIsHeld, OrderEffectIsStored, OrdersAreReadable
<1>6. ChangeChain'
  BY <1>2, <1>3, PlatformAssumption
  DEF Chain, ChangeChain, ChangeStoredIsShipped, ChangeHeldIsStored,
      ChangeSentIsHeld, TextIsStored
<1> QED
  BY <1>4, <1>5, <1>6 DEF Chain

LEMMA TextKeeps ==
  ASSUME Chain, NEW d \in Change, TextCustomer(d)
  PROVE  Chain'
<1> USE DEF orderTable, orderOutbox, changeOutbox, tracking, mails
<1>1. PICK c \in ChangeCopy : ChangeIn[c] = d /\ textQueue[c] # "unsent"
  BY DEF TextCustomer, Texts!Apply
<1>2. d \in changeStored
  BY <1>1, SentIsStored, CopyParts
<1>3. /\ texted' = [texted EXCEPT ![d] = 1] /\ UNCHANGED textQueue
      /\ UNCHANGED <<orders, cancels, orderOutbox, changeOutbox, tracking, mails>>
  BY DEF TextCustomer, Texts!Apply
<1>4. TypeOK'
  BY <1>3 DEF Chain, TypeOK
<1>5. OrderChain' /\ OrdersAreReadable'
  BY <1>3
  DEF Chain, OrderChain, StoredIsCommitted, OrderHeldIsStored,
      OrderSentIsHeld, OrderEffectIsStored, OrdersAreReadable
<1>6. ChangeChain'
  BY <1>2, <1>3
  DEF Chain, TypeOK, ChangeChain, ChangeStoredIsShipped, ChangeHeldIsStored,
      ChangeSentIsHeld, TextIsStored
<1> QED
  BY <1>4, <1>5, <1>6 DEF Chain

\* Acknowledging or dead-lettering a copy; what an order's consumer would
\* dead-letter was refused before it was stored.
LEMMA SettleOrderKeeps ==
  ASSUME Chain, NEW c \in OrderCopy, SettleTracking(c) \/ SettleMail(c)
  PROVE  Chain'
<1> USE DEF orderTable, orderOutbox, changeOutbox, tracking, mails, texts
<1>1. UNCHANGED <<orders, cancels, orderOutbox, changeOutbox, texts, columnsMatch>>
  BY DEF SettleTracking, SettleMail
<1>2. UNCHANGED <<shipments, mailed>>
  BY DEF SettleTracking, SettleMail, Tracking!Discard, Tracking!Bury,
         Tracking!Move, Mails!Discard, Mails!Bury, Mails!Move
<1>3. PICK to \in {"gone", "dlq"} :
        \/ /\ trackingQueue[c] = "pending"
           /\ trackingQueue' = [trackingQueue EXCEPT ![c] = to]
           /\ mailQueue' = mailQueue
           /\ to = "dlq" => OrderOf[c] \in Order \ Parsable
        \/ /\ mailQueue[c] = "pending"
           /\ mailQueue' = [mailQueue EXCEPT ![c] = to]
           /\ trackingQueue' = trackingQueue
           /\ to = "dlq" => OrderOf[c] \in Order \ Parsable
  BY DEF SettleTracking, SettleMail, Tracking!Discard, Tracking!Bury,
         Tracking!Move, Mails!Discard, Mails!Bury, Mails!Move
<1>4. to = "gone"
  <2>1. c[1] \in orderStored /\ c[1] \in Order /\ OrderOf[c] = c[1]
    BY <1>3, SentIsStored, CopyParts
  <2> QED
    BY <1>3, <2>1 DEF Chain, OrderChain, StoredIsCommitted
<1>5. TypeOK'
  BY <1>1, <1>2, <1>3, <1>4 DEF Chain, TypeOK, Places
<1>6. OrderChain'
  <2>1. StoredIsCommitted' /\ OrderHeldIsStored' /\ OrderEffectIsStored'
    BY <1>1, <1>2 DEF Chain, OrderChain, StoredIsCommitted,
       OrderHeldIsStored, OrderEffectIsStored
  <2>2. OrderSentIsHeld'
    BY <1>1, <1>3 DEF Chain, TypeOK, OrderChain, OrderSentIsHeld
  <2> QED
    BY <2>1, <2>2 DEF OrderChain
<1>7. ChangeChain'
  BY <1>1, <1>2 DEF Chain, ChangeChain, ChangeStoredIsShipped,
     ChangeHeldIsStored, ChangeSentIsHeld, TextIsStored
<1>8. OrdersAreReadable'
  BY <1>3, <1>4 DEF Chain, TypeOK, OrdersAreReadable
<1> QED
  BY <1>5, <1>6, <1>7, <1>8 DEF Chain

LEMMA SettleTextKeeps ==
  ASSUME Chain, NEW c \in ChangeCopy, SettleText(c)
  PROVE  Chain'
<1> USE DEF orderTable, orderOutbox, changeOutbox, tracking, mails
<1>1. UNCHANGED <<orders, cancels, orderOutbox, changeOutbox, tracking, mails>>
  BY DEF SettleText
<1>2. PICK to \in {"gone", "dlq"} :
        /\ textQueue[c] = "pending"
        /\ textQueue' = [textQueue EXCEPT ![c] = to]
        /\ UNCHANGED texted
  BY DEF SettleText, Texts!Discard, Texts!Bury, Texts!Move
<1>3. TypeOK'
  BY <1>1, <1>2 DEF Chain, TypeOK, Places
<1>4. OrderChain' /\ OrdersAreReadable'
  BY <1>1
  DEF Chain, OrderChain, StoredIsCommitted, OrderHeldIsStored,
      OrderSentIsHeld, OrderEffectIsStored, OrdersAreReadable
<1>5. ChangeChain'
  BY <1>1, <1>2
  DEF Chain, TypeOK, ChangeChain, ChangeStoredIsShipped, ChangeHeldIsStored,
      ChangeSentIsHeld, TextIsStored
<1> QED
  BY <1>3, <1>4, <1>5 DEF Chain

LEMMA UpdateShipmentKeeps ==
  ASSUME Chain, NEW d \in Change, UpdateShipment(d)
  PROVE  Chain'
<1> USE DEF orderTable, orderOutbox, changeOutbox, tracking, mails, texts
<1>1. /\ shipments[ChangeOf[d]] > 0
      /\ changeStored' = changeStored \cup {d}
      /\ unreadable' \subseteq unreadable \cup {d}
      /\ UNCHANGED <<changeHeld, changePublished, changeDead>>
      /\ UNCHANGED <<orders, cancels, orderOutbox, tracking, mails, texts>>
  BY DEF UpdateShipment, ChangeOutbox!Store
<1>2. TypeOK'
  BY <1>1 DEF Chain, TypeOK
<1>3. OrderChain' /\ OrdersAreReadable'
  BY <1>1
  DEF Chain, OrderChain, StoredIsCommitted, OrderHeldIsStored,
      OrderSentIsHeld, OrderEffectIsStored, OrdersAreReadable
<1>4. ChangeChain'
  BY <1>1
  DEF Chain, ChangeChain, ChangeStoredIsShipped, ChangeHeldIsStored,
      ChangeSentIsHeld, TextIsStored
<1> QED
  BY <1>2, <1>3, <1>4 DEF Chain

-----------------------------------------------------------------------------
(***************************************************************************)
(* The chain is an invariant, and the properties follow from it.           *)
(***************************************************************************)

LEMMA ChainInit == Init => Chain
<1> SUFFICES ASSUME Init
             PROVE  Chain
  OBVIOUS
<1> USE DEF Init, OrderOutbox!Init, ChangeOutbox!Init, Tracking!Init,
            Mails!Init, Texts!Init
<1>1. TypeOK
  BY PlatformAssumption DEF TypeOK, Places
<1>2. OrderChain
  BY DEF OrderChain, StoredIsCommitted, OrderHeldIsStored, OrderSentIsHeld,
         OrderEffectIsStored
<1>3. ChangeChain /\ OrdersAreReadable
  BY DEF ChangeChain, ChangeStoredIsShipped, ChangeHeldIsStored,
         ChangeSentIsHeld, TextIsStored, OrdersAreReadable
<1> QED
  BY <1>1, <1>2, <1>3 DEF Chain

LEMMA ChainStep == Chain /\ [Next]_vars => Chain'
<1> SUFFICES ASSUME Chain, [Next]_vars
             PROVE  Chain'
  OBVIOUS
<1>1. CASE OrderService
  BY <1>1, CreateKeeps, PublishOrderKeeps, MarkKeeps, CancelKeeps DEF OrderService
<1>2. CASE TrackingService
  BY <1>2, OrderEffectKeeps, SettleOrderKeeps, UpdateShipmentKeeps,
     PublishChangeKeeps, MarkKeeps DEF TrackingService
<1>3. CASE NotificationService
  BY <1>3, OrderEffectKeeps, SettleOrderKeeps, TextKeeps, SettleTextKeeps
  DEF NotificationService
<1>4. CASE UNCHANGED vars
  BY <1>4
  DEF vars, orderTable, orderOutbox, changeOutbox, tracking, mails, texts,
      Chain, TypeOK, OrderChain, StoredIsCommitted, OrderHeldIsStored,
      OrderSentIsHeld, OrderEffectIsStored, ChangeChain, ChangeStoredIsShipped,
      ChangeHeldIsStored, ChangeSentIsHeld, TextIsStored, OrdersAreReadable
<1> QED
  BY <1>1, <1>2, <1>3, <1>4 DEF Next

\* Every shipment, e-mail and text message goes back to an order that was
\* committed and is still there.
THEOREM EffectsAreCaused == Spec => []EffectsHaveCause
<1>1. Chain => EffectsHaveCause
  <2> SUFFICES ASSUME Chain
               PROVE  EffectsHaveCause
    OBVIOUS
  <2>1. ASSUME NEW o \in Order, shipments[o] > 0 \/ mailed[o] > 0
        PROVE  orders[o] # "none"
    BY <2>1 DEF Chain, OrderChain, OrderEffectIsStored, StoredIsCommitted
  <2>2. \A o \in Order : shipments[o] + mailed[o] > 0
                           => shipments[o] > 0 \/ mailed[o] > 0
    BY DEF Chain, TypeOK
  <2>3. ASSUME NEW d \in Change, texted[d] > 0
        PROVE  shipments[ChangeOf[d]] > 0
    BY <2>3 DEF Chain, ChangeChain, TextIsStored, ChangeStoredIsShipped
  <2>4. \A d \in Change : ChangeOf[d] \in Order
    BY PlatformAssumption
  <2> QED
    BY <2>1, <2>2, <2>3, <2>4 DEF EffectsHaveCause
<1> QED
  BY <1>1, ChainInit, ChainStep, PTL DEF Spec

\* No message of an order is dead-lettered by either of its consumers.
THEOREM OrdersStayReadable == Spec => []OrdersAreReadable
<1>1. Chain => OrdersAreReadable
  BY DEF Chain
<1> QED
  BY <1>1, ChainInit, ChainStep, PTL DEF Spec

-----------------------------------------------------------------------------
(***************************************************************************)
(* Sums, which are recursive functions: that there is a function with the  *)
(* recursion, and only one, is shown with a least counterexample.          *)
(***************************************************************************)

\* A set of natural numbers that is not empty has a least member.
LEMMA LeastExists ==
  ASSUME NEW S \in SUBSET Nat, S # {}
  PROVE  \E i \in S : \A j \in S : i <= j
<1> DEFINE below == OpToRel(<, Nat)
<1>1. IsWellFoundedOn(below, Nat)
  BY NatLessThanWellFounded
<1>2. \A i, j \in Nat : j < i => <<j, i>> \in below
  BY DEF OpToRel
<1> HIDE DEF below
<1>3. PICK i \in S : \A j \in S : <<j, i>> \notin below
  BY <1>1, WFMin
<1>4. \A j \in S : ~(j < i)
  BY <1>2, <1>3
<1> QED
  BY <1>4

\* What holds of 0, and of the next number up to N, holds up to N.
LEMMA UpTo ==
  ASSUME NEW N \in Nat, NEW Good \in SUBSET Nat, 0 \in Good,
         \A n \in 1 .. N : n - 1 \in Good => n \in Good
  PROVE  0 .. N \subseteq Good
<1> DEFINE Bad == (0 .. N) \ Good
<1> SUFFICES ASSUME Bad # {}
             PROVE  FALSE
  OBVIOUS
<1>0. Bad \in SUBSET Nat
  OBVIOUS
<1>1. PICK n \in Bad : \A j \in Bad : n <= j
  <2> HIDE DEF Bad
  <2> QED
    BY <1>0, LeastExists
<1>2. n \in 1 .. N /\ n - 1 \in 0 .. N /\ ~(n <= n - 1)
  BY <1>1
<1> QED
  BY <1>1, <1>2

\* Summands can be added with any rule of addition.
LEMMA SumExists ==
  ASSUME NEW N \in Nat, NEW add \in [Nat \X (1 .. N) -> Nat]
  PROVE  \E s \in [0 .. N -> Nat] :
           s[0] = 0 /\ \A n \in 1 .. N : s[n] = add[<<s[n - 1], n>>]
<1> DEFINE Sums(m, s) ==
      s \in [0 .. m -> Nat]
        /\ s[0] = 0 /\ \A n \in 1 .. m : s[n] = add[<<s[n - 1], n>>]
           Good == {m \in 0 .. N : \E s : Sums(m, s)}
<1>1. 0 \in Good
  <2>1. Sums(0, [n \in 0 .. 0 |-> 0])
    OBVIOUS
  <2> HIDE DEF Sums
  <2> QED
    BY <2>1
<1>2. ASSUME NEW m \in 1 .. N, m - 1 \in Good
      PROVE  m \in Good
  <2>1. PICK s : Sums(m - 1, s)
    BY <1>2
  <2> DEFINE t == [n \in 0 .. m |-> IF n = m THEN add[<<s[m - 1], m>>] ELSE s[n]]
  <2>2. s[m - 1] \in Nat /\ add[<<s[m - 1], m>>] \in Nat
    BY <2>1
  <2>3. t \in [0 .. m -> Nat] /\ t[0] = 0
    BY <2>1, <2>2
  <2>4. ASSUME NEW n \in 1 .. m
        PROVE  t[n] = add[<<t[n - 1], n>>]
    <3>1. CASE n = m
      <4>1. m - 1 \in 0 .. m /\ m - 1 # m /\ m \in 0 .. m
        OBVIOUS
      <4> QED
        BY <3>1, <4>1
    <3>2. CASE n # m
      <4>1. n \in 1 .. m - 1 /\ n - 1 \in 0 .. m - 1 /\ n - 1 # m /\ n \in 0 .. m /\ n - 1 \in 0 .. m
        BY <3>2
      <4>2. t[n] = s[n] /\ t[n - 1] = s[n - 1]
        BY <3>2, <4>1
      <4> QED
        BY <2>1, <4>1, <4>2
    <3> QED
      BY <3>1, <3>2
  <2> HIDE DEF t
  <2> QED
    BY <2>3, <2>4
<1> HIDE DEF Good
<1>3. 0 .. N \subseteq Good
  <2>1. Good \in SUBSET Nat
    BY DEF Good
  <2> QED
    BY <1>1, <1>2, <2>1, UpTo
<1>4. N \in Good
  BY <1>3
<1> QED
  BY <1>4 DEF Good

\* Two functions that start and go on alike are alike.
LEMMA SumsAgree ==
  ASSUME NEW N \in Nat, NEW s, NEW t, s[0] = t[0],
         \A n \in 1 .. N : s[n - 1] = t[n - 1] => s[n] = t[n]
  PROVE  \A n \in 0 .. N : s[n] = t[n]
<1> DEFINE Good == {n \in Nat : s[n] = t[n]}
<1>1. 0 \in Good /\ \A n \in 1 .. N : n - 1 \in Good => n \in Good
  OBVIOUS
<1>2. Good \in SUBSET Nat
  OBVIOUS
<1> HIDE DEF Good
<1>3. 0 .. N \subseteq Good
  BY <1>1, <1>2, UpTo
<1> QED
  BY <1>3 DEF Good

\* The products of the items of an order, as the DTO lets them through.
Product(items, n) == items[n].quantity * items[n].price

Countable(items) ==
  /\ items \in Seq(AnyItem)
  /\ \A n \in DOMAIN items : items[n].quantity \in Nat /\ items[n].price \in Nat

LEMMA FloatFacts ==
  ASSUME NEW n \in Nat
  PROVE  /\ Float(n) \in Nat
         /\ n <= MaxExact => Float(n) = n
         /\ n >= MaxExact => Float(n) >= MaxExact
<1>1. n % 2 \in {0, 1} /\ MaxExact \in Nat
  BY WidthAssumption
<1> QED
  BY <1>1 DEF Float

LEMMA ProductIsNat ==
  ASSUME NEW items, Countable(items), NEW n \in 1 .. Len(items)
  PROVE  Product(items, n) \in Nat
<1>1. items[n].quantity \in Nat /\ items[n].price \in Nat
  BY DEF Countable
<1>2. \A a, b \in Nat : a * b \in Nat
  OBVIOUS
<1> QED
  BY <1>1, <1>2 DEF Product

\* TotalCents is the last of the sums it is defined with.
LEMMA TotalIsSum ==
  ASSUME NEW o, Countable(o.items)
  PROVE  \E s \in [0 .. Len(o.items) -> Nat] :
           /\ s[0] = 0
           /\ \A n \in 1 .. Len(o.items) :
                s[n] = Float(s[n - 1] + Float(Product(o.items, n)))
           /\ TotalCents(o) = s[Len(o.items)]
<1> DEFINE N == Len(o.items)
           Body(f) == [n \in 0 .. N |->
                         IF n = 0 THEN 0
                         ELSE Float(f[n - 1] + Float(o.items[n].quantity * o.items[n].price))]
           sum == CHOOSE f : f = Body(f)
           add == [c \in Nat \X (1 .. N) |-> Float(c[1] + Float(Product(o.items, c[2])))]
<1>1. N \in Nat
  BY DEF Countable
<1>2. add \in [Nat \X (1 .. N) -> Nat]
  <2>1. ASSUME NEW c \in Nat \X (1 .. N)
        PROVE  Float(c[1] + Float(Product(o.items, c[2]))) \in Nat
    <3>1. Float(Product(o.items, c[2])) \in Nat
      BY ProductIsNat, FloatFacts
    <3>2. c[1] + Float(Product(o.items, c[2])) \in Nat
      BY <3>1
    <3> QED
      BY <3>2, FloatFacts
  <2> QED
    BY <2>1
<1>3. PICK s \in [0 .. N -> Nat] :
        s[0] = 0 /\ \A n \in 1 .. N : s[n] = add[<<s[n - 1], n>>]
  <2> HIDE DEF N, add
  <2> QED
    BY <1>1, <1>2, SumExists
<1>4. \A n \in 1 .. N : s[n] = Float(s[n - 1] + Float(Product(o.items, n)))
  <2> SUFFICES ASSUME NEW n \in 1 .. N
               PROVE  s[n] = Float(s[n - 1] + Float(Product(o.items, n)))
    OBVIOUS
  <2>1. s[n - 1] \in Nat /\ s[n] = add[<<s[n - 1], n>>]
    <3> HIDE DEF add
    <3>1. n - 1 \in 0 .. N
      BY <1>1
    <3> QED
      BY <1>3, <3>1
  <2>2. \A k \in Nat :
          add[<<k, n>>] = Float(k + Float(Product(o.items, n)))
    OBVIOUS
  <2> QED
    BY <2>1, <2>2
<1>5. s = Body(s)
  <2>1. \A n \in 0 .. N : n # 0 => n \in 1 .. N
    BY <1>1
  <2> HIDE DEF N, add
  <2>2. \A n \in 0 .. N : s[n] = Body(s)[n]
    BY <2>1, <1>3, <1>4 DEF Product
  <2> QED
    BY <2>2
<1>6. sum = Body(sum)
  <2> HIDE DEF Body
  <2> QED
    BY <1>5
<1>7. /\ sum[0] = s[0]
      /\ \A n \in 1 .. N : sum[n - 1] = s[n - 1] => sum[n] = s[n]
  <2> HIDE DEF sum
  <2>1. /\ sum[0] = 0
        /\ \A n \in 1 .. N : sum[n] = Float(sum[n - 1] + Float(Product(o.items, n)))
    <3>1. \A n \in 0 .. N : sum[n] = Body(sum)[n]
      <4> HIDE DEF Body
      <4> QED
        BY <1>6
    <3>2. 0 \in 0 .. N /\ \A n \in 1 .. N : n \in 0 .. N /\ n # 0
      BY <1>1
    <3> HIDE DEF N
    <3> QED
      BY <3>1, <3>2 DEF Product
  <2> QED
    BY <2>1, <1>3, <1>4
<1>8. sum[N] = s[N]
  <2> HIDE DEF sum, N
  <2>1. \A n \in 0 .. N : sum[n] = s[n]
    BY <1>1, <1>7, SumsAgree, ZenonT(30)
  <2> QED
    BY <1>1, <2>1
<1>9. TotalCents(o) = sum[N]
  BY DEF TotalCents
<1> HIDE DEF sum
<1> QED
  BY <1>3, <1>4, <1>8, <1>9
\* And so is ExactTotal.
LEMMA ExactIsSum ==
  ASSUME NEW o, Countable(o.items)
  PROVE  \E s \in [0 .. Len(o.items) -> Nat] :
           /\ s[0] = 0
           /\ \A n \in 1 .. Len(o.items) :
                s[n] = s[n - 1] + Product(o.items, n)
           /\ ExactTotal(o) = s[Len(o.items)]
<1> DEFINE N == Len(o.items)
           Body(f) == [n \in 0 .. N |->
                         IF n = 0 THEN 0
                         ELSE f[n - 1] + o.items[n].quantity * o.items[n].price]
           sum == CHOOSE f : f = Body(f)
           add == [c \in Nat \X (1 .. N) |-> c[1] + Product(o.items, c[2])]
<1>1. N \in Nat
  BY DEF Countable
<1>2. add \in [Nat \X (1 .. N) -> Nat]
  <2>1. ASSUME NEW c \in Nat \X (1 .. N)
        PROVE  c[1] + Product(o.items, c[2]) \in Nat
    BY ProductIsNat
  <2> QED
    BY <2>1
<1>3. PICK s \in [0 .. N -> Nat] :
        s[0] = 0 /\ \A n \in 1 .. N : s[n] = add[<<s[n - 1], n>>]
  <2> HIDE DEF N, add
  <2> QED
    BY <1>1, <1>2, SumExists
<1>4. \A n \in 1 .. N : s[n] = s[n - 1] + Product(o.items, n)
  <2> SUFFICES ASSUME NEW n \in 1 .. N
               PROVE  s[n] = s[n - 1] + Product(o.items, n)
    OBVIOUS
  <2>1. s[n - 1] \in Nat /\ s[n] = add[<<s[n - 1], n>>]
    <3> HIDE DEF add
    <3>1. n - 1 \in 0 .. N
      BY <1>1
    <3> QED
      BY <1>3, <3>1
  <2>2. \A k \in Nat :
          add[<<k, n>>] = k + Product(o.items, n)
    OBVIOUS
  <2> QED
    BY <2>1, <2>2
<1>5. s = Body(s)
  <2>1. \A n \in 0 .. N : n # 0 => n \in 1 .. N
    BY <1>1
  <2> HIDE DEF N, add
  <2>2. \A n \in 0 .. N : s[n] = Body(s)[n]
    BY <2>1, <1>3, <1>4 DEF Product
  <2> QED
    BY <2>2
<1>6. sum = Body(sum)
  <2> HIDE DEF Body
  <2> QED
    BY <1>5
<1>7. /\ sum[0] = s[0]
      /\ \A n \in 1 .. N : sum[n - 1] = s[n - 1] => sum[n] = s[n]
  <2> HIDE DEF sum
  <2>1. /\ sum[0] = 0
        /\ \A n \in 1 .. N : sum[n] = sum[n - 1] + Product(o.items, n)
    <3>1. \A n \in 0 .. N : sum[n] = Body(sum)[n]
      <4> HIDE DEF Body
      <4> QED
        BY <1>6
    <3>2. 0 \in 0 .. N /\ \A n \in 1 .. N : n \in 0 .. N /\ n # 0
      BY <1>1
    <3> HIDE DEF N
    <3> QED
      BY <3>1, <3>2 DEF Product
  <2> QED
    BY <2>1, <1>3, <1>4
<1>8. sum[N] = s[N]
  <2> HIDE DEF sum, N
  <2>1. \A n \in 0 .. N : sum[n] = s[n]
    BY <1>1, <1>7, SumsAgree, ZenonT(30)
  <2> QED
    BY <1>1, <2>1
<1>9. ExactTotal(o) = sum[N]
  BY DEF ExactTotal
<1> HIDE DEF sum
<1> QED
  BY <1>3, <1>4, <1>8, <1>9

\* Up to MaxExact every sum is the exact one, and above it none comes back.
LEMMA RoundedIsExact ==
  ASSUME NEW o, Countable(o.items), TotalCents(o) < MaxExact
  PROVE  TotalCents(o) = ExactTotal(o)
<1> DEFINE N == Len(o.items)
           p(n) == Product(o.items, n)
<1>1. PICK s \in [0 .. N -> Nat] :
        /\ s[0] = 0
        /\ \A n \in 1 .. N : s[n] = Float(s[n - 1] + Float(p(n)))
        /\ TotalCents(o) = s[N]
  BY TotalIsSum
<1>2. PICK e \in [0 .. N -> Nat] :
        /\ e[0] = 0
        /\ \A n \in 1 .. N : e[n] = e[n - 1] + p(n)
        /\ ExactTotal(o) = e[N]
  BY ExactIsSum
<1> DEFINE Good == {n \in 0 .. N : s[n] = e[n] \/ s[n] >= MaxExact}
<1>3. N \in Nat /\ MaxExact \in Nat
  BY WidthAssumption DEF Countable
<1>4. 0 \in Good
  BY <1>1, <1>2, <1>3
<1>5. ASSUME NEW n \in 1 .. N, n - 1 \in Good
      PROVE  n \in Good
  <2>1. n - 1 \in 0 .. N /\ n \in 0 .. N
    BY <1>3
  <2>2. s[n - 1] \in Nat /\ e[n - 1] \in Nat /\ p(n) \in Nat
    BY <2>1, ProductIsNat
  <2>3. s[n] = Float(s[n - 1] + Float(p(n))) /\ e[n] = e[n - 1] + p(n)
    BY <1>1, <1>2
  <2> DEFINE a == s[n - 1]
             x == p(n)
  <2>4. a = e[n - 1] \/ a >= MaxExact
    BY <1>5
  <2> HIDE DEF a, x, p
  <2>5. a \in Nat /\ x \in Nat /\ Float(x) \in Nat
    BY <2>2, FloatFacts DEF a, x
  <2>6. a + x \in Nat /\ a + Float(x) \in Nat
    BY <2>5
  <2>7. CASE a >= MaxExact \/ x > MaxExact
    <3>1. a + Float(x) >= MaxExact
      BY <2>5, <2>7, <1>3, FloatFacts
    <3>2. Float(a + Float(x)) >= MaxExact
      BY <3>1, <2>6, FloatFacts
    <3> QED
      BY <3>2, <2>1, <2>3 DEF a, x
  <2>8. CASE a = e[n - 1] /\ x <= MaxExact
    <3>1. Float(x) = x
      BY <2>5, <2>8, FloatFacts
    <3>2. Float(a + x) = a + x \/ Float(a + x) >= MaxExact
      BY <2>6, <1>3, FloatFacts
    <3> QED
      BY <3>1, <3>2, <2>1, <2>3, <2>8 DEF a, x
  <2> QED
    BY <2>4, <2>5, <2>7, <2>8, <1>3
<1> HIDE DEF Good, N
<1>6. 0 .. N \subseteq Good
  <2>1. Good \in SUBSET Nat
    BY <1>3 DEF Good
  <2> QED
    BY <1>3, <1>4, <1>5, <2>1, UpTo
<1>7. s[N] = e[N] \/ s[N] >= MaxExact
  BY <1>3, <1>6 DEF Good
<1>8. s[N] \in Nat
  BY <1>1, <1>3
<1> QED
  BY <1>1, <1>2, <1>3, <1>7, <1>8

\* Items with the same products have the same sum.
LEMMA SameProducts ==
  ASSUME NEW o, NEW r, Countable(o.items), Countable(r.items),
         Len(o.items) = Len(r.items),
         \A n \in 1 .. Len(o.items) : Product(o.items, n) = Product(r.items, n)
  PROVE  ExactTotal(o) = ExactTotal(r)
<1> DEFINE N == Len(o.items)
<1>1. PICK s \in [0 .. N -> Nat] :
        /\ s[0] = 0
        /\ \A n \in 1 .. N : s[n] = s[n - 1] + Product(o.items, n)
        /\ ExactTotal(o) = s[N]
  BY ExactIsSum
<1>2. PICK t \in [0 .. N -> Nat] :
        /\ t[0] = 0
        /\ \A n \in 1 .. N : t[n] = t[n - 1] + Product(r.items, n)
        /\ ExactTotal(r) = t[N]
  BY ExactIsSum
<1>3. N \in Nat
  BY DEF Countable
<1>4. s[0] = t[0] /\ \A n \in 1 .. N : s[n - 1] = t[n - 1] => s[n] = t[n]
  BY <1>1, <1>2
<1> HIDE DEF N
<1>5. \A n \in 0 .. N : s[n] = t[n]
  BY <1>3, <1>4, SumsAgree, ZenonT(30)
<1> QED
  BY <1>1, <1>2, <1>3, <1>5

-----------------------------------------------------------------------------
(***************************************************************************)
(* What was committed was accepted, and what was accepted can be read.     *)
(***************************************************************************)

CommittedIsAcceptable ==
  \A o \in Order : orders[o] # "none" => o \in Acceptable

ReadIsCommitted ==
  \A h \in Canceller : cancels[h] # NoOrder => orders[cancels[h]] # "none"

Accepted == CommittedIsAcceptable /\ ReadIsCommitted

LEMMA PlacedItems ==
  ASSUME NEW o \in Acceptable
  PROVE  /\ Countable(Request[o].items)
         /\ Countable(Place(Request[o]).items)
         /\ Len(Place(Request[o]).items) = Len(Request[o].items)
         /\ \A n \in 1 .. Len(Request[o].items) :
              Product(Place(Request[o]).items, n) = Product(Request[o].items, n)
<1> DEFINE asked == Request[o].items
           placed == Place(Request[o]).items
<1>1. o \in Order /\ Request[o] \in AnyRequest /\ DtoValid(Request[o])
  BY PlatformAssumption DEF Acceptable
<1>2. asked \in Seq(AnyItem)
  BY <1>1 DEF AnyRequest
<1>3. placed = [n \in DOMAIN asked |-> ItemCreated(asked[n])]
  BY DEF Place
<1>4. \A n \in DOMAIN asked :
        asked[n] \in AnyItem /\ asked[n].quantity >= 1 /\ asked[n].price >= 0
  BY <1>1, <1>2 DEF DtoValid, ItemDtoValid
<1>5. \A i \in AnyItem :
        /\ ItemCreated(i) \in AnyItem
        /\ ItemCreated(i).quantity = i.quantity /\ ItemCreated(i).price = i.price
  BY DEF ItemCreated, AnyItem, AnyText, Trim, Text
<1> HIDE DEF asked, placed
<1>6. Len(asked) \in Nat /\ DOMAIN asked = 1 .. Len(asked)
  BY <1>2
<1>7. /\ placed \in Seq(AnyItem) /\ Len(placed) = Len(asked)
      /\ DOMAIN placed = DOMAIN asked
  BY <1>3, <1>4, <1>5, <1>6
<1>8. \A n \in DOMAIN asked :
        /\ placed[n].quantity = asked[n].quantity /\ placed[n].price = asked[n].price
        /\ asked[n].quantity \in Nat /\ asked[n].price \in Nat
  BY <1>3, <1>4, <1>5 DEF AnyItem
<1>9. Countable(asked) /\ Countable(placed)
  BY <1>2, <1>7, <1>8 DEF Countable
<1>10. \A n \in DOMAIN asked : Product(placed, n) = Product(asked, n)
  BY <1>8 DEF Product
<1> QED
  BY <1>6, <1>7, <1>9, <1>10 DEF asked, placed

\* Trimming a second time changes nothing.
LEMMA FoundItems ==
  ASSUME NEW o \in Acceptable
  PROVE  Found(o).items = Place(Request[o]).items
<1> DEFINE placed == Place(Request[o]).items
<1>1. placed \in Seq(AnyItem)
  BY PlacedItems DEF Countable
<1>2. placed = [n \in DOMAIN placed |-> placed[n]]
      /\ \A n \in DOMAIN placed : \E i \in AnyItem : placed[n] = ItemCreated(i)
  <2>1. Request[o].items \in Seq(AnyItem)
    BY PlacedItems DEF Countable
  <2> QED
    BY <2>1 DEF Place
<1>3. \A i \in AnyItem : ItemCreated(ItemCreated(i)) = ItemCreated(i)
  BY DEF ItemCreated, AnyItem, AnyText, Trim, Text
<1>4. Found(o).items = [n \in DOMAIN placed |-> ItemCreated(placed[n])]
  BY DEF Found, Rehydrated
<1> HIDE DEF placed
<1> QED
  BY <1>2, <1>3, <1>4 DEF placed

LEMMA TotalOfItems ==
  ASSUME NEW o, NEW r, o.items = r.items
  PROVE  TotalCents(o) = TotalCents(r)
BY DEF TotalCents

LEMMA AcceptableIsRestorable == Acceptable \subseteq Restorable
<1> SUFFICES ASSUME NEW o \in Acceptable
             PROVE  Rebuildable(Place(Request[o]))
  BY DEF Acceptable, Restorable
<1> DEFINE asked == Request[o].items
           placed == Place(Request[o]).items
<1>1. /\ Request[o] \in AnyRequest
      /\ Constructible(Request[o], Upper(Request[o].currency))
  BY PlatformAssumption DEF Acceptable, Placeable
<1>2. /\ Upper(Request[o].currency).trimmed = 3
      /\ asked # << >> /\ asked \in Seq(AnyItem)
      /\ \A n \in DOMAIN asked : ItemCreatable(asked[n])
  BY <1>1 DEF Constructible, AnyRequest
<1>3. /\ Place(Request[o]).currency = Upper(Request[o].currency)
      /\ placed = [n \in DOMAIN asked |-> ItemCreated(asked[n])]
  BY DEF Place
<1>4. \A i \in AnyItem : ItemCreatable(i) => ItemCreatable(ItemCreated(i))
  BY DEF ItemCreatable, ItemCreated, AnyItem, AnyText, Trim, Text
<1> HIDE DEF asked, placed
<1>5. \A n \in DOMAIN placed : ItemCreatable(placed[n])
  BY <1>2, <1>3, <1>4
<1>6. placed # << >>
  BY <1>2, <1>3
<1> QED
  BY <1>2, <1>3, <1>5, <1>6 DEF Rebuildable, Constructible, placed

LEMMA AcceptedInit == Init => Accepted
BY DEF Init, Accepted, CommittedIsAcceptable, ReadIsCommitted

\* Only create-order and cancel-order write the table of orders, or read it to
\* cancel.
LEMMA OrdersChange ==
  ASSUME [Next]_vars
  PROVE  \/ UNCHANGED orderTable
         \/ \E o \in Order : Create(o)
         \/ \E h \in Canceller, o \in Order : FindToCancel(h, o)
         \/ \E h \in Canceller : UpdateCancelled(h) \/ CancelFails(h)
<1>1. CASE OrderService
  BY <1>1 DEF OrderService, PublishOrder, MarkOrder
<1>2. CASE TrackingService
  BY <1>2 DEF TrackingService, CreateShipment, SettleTracking, UpdateShipment,
              PublishChange, MarkChange
<1>3. CASE NotificationService
  BY <1>3 DEF NotificationService, MailCustomer, SettleMail, TextCustomer, SettleText
<1>4. CASE UNCHANGED vars
  BY <1>4 DEF vars
<1> QED
  BY <1>1, <1>2, <1>3, <1>4 DEF Next

LEMMA AcceptedStep == Chain /\ Accepted /\ [Next]_vars => Accepted'
<1> SUFFICES ASSUME Chain, Accepted, [Next]_vars
             PROVE  Accepted'
  OBVIOUS
<1> USE DEF Accepted, CommittedIsAcceptable, ReadIsCommitted
<1>1. CASE UNCHANGED orderTable
  BY <1>1 DEF orderTable
<1>2. ASSUME NEW o \in Order, Create(o)
      PROVE  Accepted'
  BY <1>2 DEF Create, Placed, Chain, TypeOK
<1>3. ASSUME NEW h \in Canceller, NEW o \in Order, FindToCancel(h, o)
      PROVE  Accepted'
  BY <1>3 DEF FindToCancel, Cancellable, Chain, TypeOK
<1>4. ASSUME NEW h \in Canceller, UpdateCancelled(h)
      PROVE  Accepted'
  BY <1>4 DEF UpdateCancelled, Chain, TypeOK
<1>5. ASSUME NEW h \in Canceller, CancelFails(h)
      PROVE  Accepted'
  BY <1>5 DEF CancelFails, Chain, TypeOK
<1> QED
  BY <1>1, <1>2, <1>3, <1>4, <1>5, OrdersChange

\* Every variable of the platform keeps its type.
THEOREM PlatformTypeCorrect == Spec => []TypeOK
<1>1. Chain => TypeOK
  BY DEF Chain
<1> QED
  BY <1>1, ChainInit, ChainStep, PTL DEF Spec

\* A committed order can be built again from its rows, with the items of its
\* event and the exact sum of their products, for any request: the column of
\* the total is narrower than the integers a double holds.
THEOREM TotalsStayExact == Spec => []TotalsAreExact
<1>1. ASSUME NEW o \in Acceptable
      PROVE  /\ o \in Restorable
             /\ Found(o).items = Place(Request[o]).items
             /\ TotalCents(Found(o)) = ExactTotal(Request[o])
             /\ TotalCents(Place(Request[o])) = ExactTotal(Request[o])
  <2> DEFINE placed == Place(Request[o])
  <2>1. TotalCents(placed) <= MaxColumn
    BY DEF Acceptable, Storable
  <2>2. Countable(placed.items)
    BY PlacedItems
  <2>3. TotalCents(placed) \in Nat
    BY <2>2, TotalIsSum DEF Countable
  <2>4. TotalCents(placed) < MaxExact
    BY <2>1, <2>3, WidthAssumption
  <2> HIDE DEF placed
  <2>5. TotalCents(placed) = ExactTotal(placed)
    BY <2>2, <2>4, RoundedIsExact
  <2>6. ExactTotal(placed) = ExactTotal(Request[o])
    BY PlacedItems, SameProducts DEF placed
  <2>7. TotalCents(Found(o)) = TotalCents(placed)
    BY FoundItems, TotalOfItems DEF placed
  <2> QED
    BY <2>5, <2>6, <2>7, FoundItems, AcceptableIsRestorable DEF placed
<1>2. Accepted => TotalsAreExact
  BY <1>1 DEF Accepted, CommittedIsAcceptable, TotalsAreExact, View
<1> QED
  BY <1>2, ChainInit, ChainStep, AcceptedInit, AcceptedStep, PTL DEF Spec

-----------------------------------------------------------------------------
(***************************************************************************)
(* The parts in their place.                                               *)
(***************************************************************************)

LEMMA OrderOutboxStep ==
  ASSUME [Next]_vars
  PROVE  [OrderOutbox!Next]_(OrderOutbox!vars)
<1> USE DEF OrderOutbox!Next, OrderOutbox!vars, orderOutbox
<1>1. CASE OrderService
  BY <1>1 DEF OrderService, Create, PublishOrder, MarkOrder, FindToCancel,
              UpdateCancelled, CancelFails
<1>2. CASE TrackingService
  BY <1>2 DEF TrackingService, CreateShipment, SettleTracking, UpdateShipment,
              PublishChange, MarkChange
<1>3. CASE NotificationService
  BY <1>3 DEF NotificationService, MailCustomer, SettleMail, TextCustomer, SettleText
<1>4. CASE UNCHANGED vars
  BY <1>4 DEF vars
<1> QED
  BY <1>1, <1>2, <1>3, <1>4 DEF Next

LEMMA ChangeOutboxStep ==
  ASSUME [Next]_vars
  PROVE  [ChangeOutbox!Next]_(ChangeOutbox!vars)
<1> USE DEF ChangeOutbox!Next, ChangeOutbox!vars, changeOutbox
<1>1. CASE OrderService
  BY <1>1 DEF OrderService, Create, PublishOrder, MarkOrder, FindToCancel,
              UpdateCancelled, CancelFails
<1>2. CASE TrackingService
  BY <1>2 DEF TrackingService, CreateShipment, SettleTracking, UpdateShipment,
              PublishChange, MarkChange
<1>3. CASE NotificationService
  BY <1>3 DEF NotificationService, MailCustomer, SettleMail, TextCustomer, SettleText
<1>4. CASE UNCHANGED vars
  BY <1>4 DEF vars
<1> QED
  BY <1>1, <1>2, <1>3, <1>4 DEF Next

\* A copy that PublishOrder or PublishChange sends is one of the copies.
LEMMA SentIsCopy ==
  ASSUME Chain
  PROVE  /\ \A o \in Order : PublishOrder(o) => <<o, orderHeld[o] + 1>> \in OrderCopy
         /\ \A d \in Change : PublishChange(d) => <<d, changeHeld[d] + 1>> \in ChangeCopy
BY NextCopy, CopyParts DEF Chain, TypeOK, PublishOrder, PublishChange

LEMMA TrackingStep ==
  ASSUME Chain, [Next]_vars
  PROVE  [Tracking!Next]_(Tracking!vars)
<1> USE DEF Tracking!Next, Tracking!vars, tracking
<1>1. CASE OrderService
  BY <1>1, SentIsCopy DEF OrderService, Create, PublishOrder, RouteOrder, MarkOrder,
              FindToCancel, UpdateCancelled, CancelFails
<1>2. CASE TrackingService
  BY <1>2 DEF TrackingService, CreateShipment, SettleTracking, UpdateShipment,
              PublishChange, MarkChange
<1>3. CASE NotificationService
  BY <1>3 DEF NotificationService, MailCustomer, SettleMail, TextCustomer, SettleText
<1>4. CASE UNCHANGED vars
  BY <1>4 DEF vars
<1> QED
  BY <1>1, <1>2, <1>3, <1>4 DEF Next

LEMMA MailsStep ==
  ASSUME Chain, [Next]_vars
  PROVE  [Mails!Next]_(Mails!vars)
<1> USE DEF Mails!Next, Mails!vars, mails
<1>1. CASE OrderService
  BY <1>1, SentIsCopy DEF OrderService, Create, PublishOrder, RouteOrder, MarkOrder,
              FindToCancel, UpdateCancelled, CancelFails
<1>2. CASE TrackingService
  BY <1>2 DEF TrackingService, CreateShipment, SettleTracking, UpdateShipment,
              PublishChange, MarkChange
<1>3. CASE NotificationService
  BY <1>3 DEF NotificationService, MailCustomer, SettleMail, TextCustomer, SettleText
<1>4. CASE UNCHANGED vars
  BY <1>4 DEF vars
<1> QED
  BY <1>1, <1>2, <1>3, <1>4 DEF Next

LEMMA TextsStep ==
  ASSUME Chain, [Next]_vars
  PROVE  [Texts!Next]_(Texts!vars)
<1> USE DEF Texts!Next, Texts!vars, texts
<1>1. CASE OrderService
  BY <1>1 DEF OrderService, Create, PublishOrder, MarkOrder,
              FindToCancel, UpdateCancelled, CancelFails
<1>2. CASE TrackingService
  BY <1>2, SentIsCopy DEF TrackingService, CreateShipment, SettleTracking,
              UpdateShipment, PublishChange, MarkChange
<1>3. CASE NotificationService
  <2>1. ASSUME NEW c \in ChangeCopy, SettleText(c)
        PROVE  Texts!Discard(c) \/ Texts!Bury(c)
    <3>1. ChangeIn[c] \in Change
      BY CopyParts
    <3> QED
      BY <2>1, <3>1 DEF SettleText, Texts!Bury
  <2> QED
    BY <1>3, <2>1 DEF NotificationService, MailCustomer, SettleMail, TextCustomer
<1>4. CASE UNCHANGED vars
  BY <1>4 DEF vars
<1> QED
  BY <1>1, <1>2, <1>3, <1>4 DEF Next

\* In the composition each outbox and each queue behaves as its abstract
\* specification, which OutboxRelay and IdempotentConsumer implement: what the
\* services do around them, and the binding that feeds two queues with one
\* publication, adds no step they do not know.
THEOREM PartsKeepTheirSpecs ==
  Spec => /\ OrderOutbox!Spec /\ ChangeOutbox!Spec
          /\ Tracking!Spec /\ Mails!Spec /\ Texts!Spec
<1>1. Init => /\ OrderOutbox!Init /\ ChangeOutbox!Init
              /\ Tracking!Init /\ Mails!Init /\ Texts!Init
  BY DEF Init
<1>2. Chain /\ [Next]_vars =>
        /\ [OrderOutbox!Next]_(OrderOutbox!vars)
        /\ [ChangeOutbox!Next]_(ChangeOutbox!vars)
        /\ [Tracking!Next]_(Tracking!vars)
        /\ [Mails!Next]_(Mails!vars)
        /\ [Texts!Next]_(Texts!vars)
  BY OrderOutboxStep, ChangeOutboxStep, TrackingStep, MailsStep, TextsStep
<1> QED
  BY <1>1, <1>2, ChainInit, ChainStep, PTL
  DEF Spec, OrderOutbox!Spec, ChangeOutbox!Spec, Tracking!Spec, Mails!Spec, Texts!Spec
=============================================================================
