--------------------------- MODULE Shipments_proofs ---------------------------
(***************************************************************************)
(* Theorems about Shipments: for any shipments and calls, what the outbox  *)
(* announces of a shipment is its history, however the calls overlap.      *)
(***************************************************************************)
EXTENDS Shipments, FiniteSetTheorems, TLAPS

-----------------------------------------------------------------------------
(***************************************************************************)
(* The invariant.                                                          *)
(***************************************************************************)

\* A call that has not taken its createdAt still may.
Unstamped == {c \in Call : step[c] \in {"found", "updated"}}

ClockCounted == clock + Cardinality(Unstamped) <= calls

\* The row a transaction inserted is of the call it belongs to.
RowMatches ==
  \A c \in Call : step[c] = "enqueued" =>
    /\ row[c] \in Row
    /\ row[c].order = order[c]
    /\ row[c].previous = current[c]
    /\ row[c].current = wanted[c]
    /\ row[c].createdAt <= clock

Holds(c) == step[c] \in {"updated", "enqueued"}

OneHolder ==
  \A c \in Call, d \in Call : Holds(c) /\ Holds(d) /\ order[c] = order[d] => c = d

\* Who holds the lock of a shipment inserts the youngest of its rows.
HolderIsYoungest ==
  \A c \in Call : step[c] = "enqueued" =>
    \A y \in RowsOf(order[c]) : y.createdAt < row[c].createdAt

InThePast == \A x \in outbox : x.createdAt <= clock

\* What a call read was announced before.
ReadWasAnnounced ==
  \A c \in Call : step[c] \in {"found", "updated", "enqueued"} =>
    \/ current[c] = Pending
    \/ \E y \in RowsOf(order[c]) : y.current = current[c]

Transactions ==
  RowMatches /\ OneHolder /\ HolderIsYoungest /\ InThePast /\ ReadWasAnnounced

\* The status a shipment has is in its timeline.
StatusHasEvent ==
  \A o \in Order : shipment[o] # Absent =>
    \E e \in events : e.order = o /\ e.status = shipment[o]

Story == LastAnnouncedIsStatus /\ PreviousWasAnnounced /\ StatusHasEvent

Sound == TypeOK /\ ClockCounted /\ Transactions /\ Story

-----------------------------------------------------------------------------
LEMMA SomeOrderIsOne == SomeOrder \in Order
BY ShipmentAssumption DEF SomeOrder

LEMMA UnstampedCount == IsFiniteSet(Unstamped) /\ Cardinality(Unstamped) \in Nat
BY ShipmentAssumption, FS_Subset, FS_CardinalityType DEF Unstamped

\* A status is set together with its event.
LEMMA EventKeepsTimeline ==
  ASSUME TypeOK, StatusHasEvent, NEW o \in Order, NEW s, NEW n,
         shipment' = [shipment EXCEPT ![o] = s],
         events' = events \cup {[order |-> o, status |-> s, change |-> n]}
  PROVE  StatusHasEvent'
<1> DEFINE new == [order |-> o, status |-> s, change |-> n]
<1>1. new \in events' /\ new.order = o /\ new.status = s /\ events \subseteq events'
  OBVIOUS
<1> HIDE DEF new
<1>2. \A p \in Order : shipment'[p] = IF p = o THEN s ELSE shipment[p]
  BY DEF TypeOK
<1> SUFFICES ASSUME NEW p \in Order, shipment'[p] # Absent
             PROVE  \E e \in events' : e.order = p /\ e.status = shipment'[p]
  BY DEF StatusHasEvent
<1>3. CASE p = o
  BY <1>1, <1>2, <1>3
<1>4. CASE p # o
  BY <1>1, <1>2, <1>4 DEF StatusHasEvent
<1> QED
  BY <1>3, <1>4

\* A transaction that commits adds the youngest row of its shipment, and leaves
\* the others alone.
LEMMA CommitAdds ==
  ASSUME TypeOK, RowMatches, HolderIsYoungest,
         NEW c \in Call, step[c] = "enqueued", Committed(c)
  PROVE  /\ row[c] \in Row /\ row[c].order = order[c] /\ row[c].previous = current[c]
         /\ outbox' = outbox \cup {row[c]}
         /\ \A o \in Order :
              /\ RowsOf(o)' = IF o = order[c] THEN RowsOf(o) \cup {row[c]} ELSE RowsOf(o)
              /\ shipment'[o] = IF o = order[c] THEN row[c].current ELSE shipment[o]
         /\ \A y \in RowsOf(order[c]) : y.createdAt < row[c].createdAt
<1>1. /\ row[c] \in Row /\ row[c].order = order[c] /\ row[c].previous = current[c]
      /\ row[c].current = wanted[c]
  BY DEF RowMatches
<1>2. outbox' = outbox \cup {row[c]}
  BY DEF Committed
<1>3. \A o \in Order :
        RowsOf(o)' = IF o = order[c] THEN RowsOf(o) \cup {row[c]} ELSE RowsOf(o)
  BY <1>1, <1>2 DEF RowsOf
<1>4. \A o \in Order :
        shipment'[o] = IF o = order[c] THEN row[c].current ELSE shipment[o]
  BY <1>1 DEF Committed, TypeOK
<1> QED
  BY <1>1, <1>2, <1>3, <1>4 DEF HolderIsYoungest

\* A transaction that ends, however it does, leaves the outbox as it was or
\* commits.
LEMMA OnlyCommitsWrite ==
  ASSUME NEW c \in Call,
         UpdateStatus(c) \/ Enqueue(c) \/ Commit(c) \/ Wake(c) \/ Throws(c)
           \/ \E o \in Order, s \in Status : Find(c, o, s)
  PROVE  \/ UNCHANGED <<shipment, events, outbox>>
         \/ step[c] = "enqueued" /\ Committed(c)
BY DEF UpdateStatus, Enqueue, Commit, Wake, Throws, Find

LEMMA TypeStep ==
  ASSUME TypeOK, ClockCounted, RowMatches, [Next]_vars
  PROVE  TypeOK'
<1> USE DEF inputs
<1>1. CASE UNCHANGED vars
  BY <1>1 DEF vars, TypeOK
<1>2. ASSUME NEW o \in Order, CreatePendingShipment(o)
      PROVE  TypeOK'
  BY <1>2, ShipmentAssumption DEF CreatePendingShipment, CreateShipment, TypeOK, Event
<1>3. ASSUME NEW c \in Call, NEW o \in Order, NEW s \in Status, Find(c, o, s)
      PROVE  TypeOK'
  BY <1>3, ShipmentAssumption DEF Find, TypeOK
<1>4. ASSUME NEW c \in Call, UpdateStatus(c)
      PROVE  TypeOK'
  BY <1>4 DEF UpdateStatus, TypeOK
<1>5. ASSUME NEW c \in Call, Enqueue(c)
      PROVE  TypeOK'
  <2>1. clock + 1 <= calls
    <3>1. Cardinality(Unstamped) \in Nat
      BY UnstampedCount
    <3>2. Cardinality(Unstamped) # 0
      BY <1>5, UnstampedCount, FS_EmptySet DEF Enqueue, Unstamped
    <3> QED
      BY <3>1, <3>2 DEF ClockCounted, TypeOK
  <2>2. clock' \in 0 .. MaxCalls
    BY <1>5, <2>1, ShipmentAssumption DEF Enqueue, TypeOK
  <2>3. row' \in [Call -> Row \cup {NoRow}]
    BY <1>5 DEF Enqueue, TypeOK, Row
  <2> QED
    BY <1>5, <2>2, <2>3 DEF Enqueue, TypeOK
<1>6. ASSUME NEW c \in Call, step[c] = "enqueued", Committed(c)
      PROVE  /\ shipment' \in [Order -> Status \cup {Absent}]
             /\ events' \subseteq Event
             /\ outbox' \subseteq Row
  BY <1>6 DEF Committed, RowMatches, TypeOK, Event, Row
<1>7. ASSUME NEW c \in Call, Commit(c)
      PROVE  TypeOK'
  BY <1>6, <1>7 DEF Commit, TypeOK
<1>8. ASSUME NEW c \in Call, Return(c)
      PROVE  /\ step' \in [Call -> {"idle", "found", "updated", "enqueued", "owes"}]
             /\ order' \in [Call -> Order]
             /\ wanted' \in [Call -> Status]
             /\ current' \in [Call -> Status]
             /\ row' \in [Call -> Row \cup {NoRow}]
  BY <1>8, SomeOrderIsOne, ShipmentAssumption DEF Return, TypeOK
<1>9. ASSUME NEW c \in Call, Wake(c)
      PROVE  TypeOK'
  BY <1>8, <1>9 DEF Wake, TypeOK
<1>10. ASSUME NEW c \in Call, Throws(c)
       PROVE  TypeOK'
  <2>1. faults' \in 0 .. MaxFaults
    BY <1>10, ShipmentAssumption DEF Throws, Fault, TypeOK
  <2> QED
    BY <1>6, <1>8, <1>10, <2>1 DEF Throws, TypeOK
<1> QED
  BY <1>1, <1>2, <1>3, <1>4, <1>5, <1>7, <1>9, <1>10 DEF Next

-----------------------------------------------------------------------------
LEMMA CountStep ==
  ASSUME TypeOK, ClockCounted, [Next]_vars
  PROVE  ClockCounted'
<1> USE DEF inputs
<1>1. CASE UNCHANGED <<step, clock, calls>>
  BY <1>1 DEF ClockCounted, Unstamped
<1>2. ASSUME NEW c \in Call, NEW o \in Order, NEW s \in Status, Find(c, o, s)
      PROVE  ClockCounted'
  <2>1. Unstamped' = Unstamped \cup {c} /\ c \notin Unstamped
    BY <1>2 DEF Find, Unstamped, TypeOK
  <2>2. Cardinality(Unstamped') = Cardinality(Unstamped) + 1
    BY <2>1, UnstampedCount, FS_AddElement
  <2> QED
    BY <1>2, <2>2, UnstampedCount DEF Find, ClockCounted, TypeOK
<1>3. ASSUME NEW c \in Call, UpdateStatus(c) \/ Commit(c) \/ Wake(c)
      PROVE  ClockCounted'
  <2>1. Unstamped' = Unstamped
    BY <1>3 DEF UpdateStatus, Commit, Wake, Return, Unstamped, TypeOK
  <2> QED
    BY <1>3, <2>1 DEF UpdateStatus, Commit, Wake, ClockCounted
<1>4. ASSUME NEW c \in Call, Enqueue(c)
      PROVE  ClockCounted'
  <2>1. Unstamped' = Unstamped \ {c} /\ c \in Unstamped
    BY <1>4 DEF Enqueue, Unstamped, TypeOK
  <2>2. Cardinality(Unstamped') = Cardinality(Unstamped) - 1
    BY <2>1, UnstampedCount, FS_RemoveElement
  <2> QED
    BY <1>4, <2>2, UnstampedCount DEF Enqueue, ClockCounted, TypeOK
<1>5. ASSUME NEW c \in Call, Throws(c)
      PROVE  ClockCounted'
  <2>1. Unstamped' \subseteq Unstamped
    BY <1>5 DEF Throws, Return, Unstamped, TypeOK
  <2>2. Cardinality(Unstamped') \in Nat /\ Cardinality(Unstamped') <= Cardinality(Unstamped)
    BY <2>1, UnstampedCount, FS_Subset, FS_CardinalityType
  <2> QED
    BY <1>5, <2>2, UnstampedCount DEF Throws, ClockCounted, TypeOK
<1> QED
  BY <1>1, <1>2, <1>3, <1>4, <1>5 DEF Next, CreatePendingShipment, vars

-----------------------------------------------------------------------------
LEMMA TransactionsStep ==
  ASSUME Sound, [Next]_vars
  PROVE  Transactions'
<1> USE DEF inputs, Sound
<1>1. CASE UNCHANGED <<outbox, step, inputs, row, clock>>
  BY <1>1
  DEF Transactions, RowMatches, OneHolder, Holds, HolderIsYoungest, InThePast,
      ReadWasAnnounced, RowsOf
<1>2. ASSUME NEW c \in Call, NEW o \in Order, NEW s \in Status, Find(c, o, s)
      PROVE  Transactions'
  <2>1. /\ step'[c] = "found" /\ order'[c] = o /\ current'[c] = shipment[o]
        /\ \A d \in Call \ {c} : /\ step'[d] = step[d] /\ order'[d] = order[d]
                                 /\ wanted'[d] = wanted[d] /\ current'[d] = current[d]
        /\ UNCHANGED <<outbox, row, clock>>
    BY <1>2 DEF Find, TypeOK
  <2>2. shipment[o] = Pending \/ \E y \in RowsOf(o) : y.current = shipment[o]
    BY <1>2 DEF Find, Story, LastAnnouncedIsStatus
  <2> QED
    BY <2>1, <2>2
    DEF Transactions, RowMatches, OneHolder, Holds, HolderIsYoungest, InThePast,
        ReadWasAnnounced, RowsOf
<1>3. ASSUME NEW c \in Call, UpdateStatus(c)
      PROVE  Transactions'
  <2>1. /\ step[c] = "found" /\ ~Locked(order[c]) /\ step'[c] = "updated"
        /\ \A d \in Call \ {c} : step'[d] = step[d]
        /\ UNCHANGED <<outbox, inputs, row, clock>>
    BY <1>3 DEF UpdateStatus, TypeOK
  <2> QED
    BY <2>1
    DEF Locked, Transactions, RowMatches, OneHolder, Holds, HolderIsYoungest,
        InThePast, ReadWasAnnounced, RowsOf
<1>4. ASSUME NEW c \in Call, Enqueue(c)
      PROVE  Transactions'
  <2> DEFINE new == [order |-> order[c], previous |-> current[c],
                     current |-> wanted[c], createdAt |-> clock + 1]
  <2>1. /\ step[c] = "updated" /\ step'[c] = "enqueued"
        /\ row'[c] = new /\ clock' = clock + 1
        /\ \A d \in Call \ {c} : step'[d] = step[d] /\ row'[d] = row[d]
        /\ UNCHANGED <<outbox, inputs>>
    BY <1>4 DEF Enqueue, TypeOK
  <2>2. /\ new \in Row /\ new.order = order[c] /\ new.previous = current[c]
        /\ new.current = wanted[c] /\ new.createdAt = clock + 1
    BY DEF TypeOK, Row
  <2> HIDE DEF new
  <2>3. \A x \in outbox : x.createdAt \in Nat /\ x.createdAt <= clock
    BY DEF Transactions, InThePast, TypeOK, Row
  <2>4. RowMatches'
    <3>1. \A d \in Call \ {c} : step[d] = "enqueued" =>
            row[d].createdAt \in Nat /\ row[d].createdAt <= clock
      BY DEF Transactions, RowMatches, Row
    <3> QED
      BY <2>1, <2>2, <3>1 DEF Transactions, RowMatches, TypeOK
  <2>5. InThePast' /\ HolderIsYoungest'
    BY <2>1, <2>2, <2>3
    DEF Transactions, InThePast, HolderIsYoungest, RowsOf, TypeOK
  <2> QED
    BY <2>1, <2>4, <2>5
    DEF Transactions, OneHolder, Holds, ReadWasAnnounced, RowsOf
<1>5. ASSUME NEW c \in Call, step[c] = "enqueued", Committed(c),
             step'[c] \in {"owes", "idle"}, clock' = clock,
             \A d \in Call \ {c} :
               /\ step'[d] = step[d] /\ order'[d] = order[d] /\ row'[d] = row[d]
               /\ wanted'[d] = wanted[d] /\ current'[d] = current[d]
      PROVE  Transactions'
  <2>1. /\ row[c] \in Row /\ row[c].createdAt <= clock /\ row[c].order = order[c]
        /\ outbox' = outbox \cup {row[c]}
    BY <1>5 DEF Transactions, RowMatches, Committed
  <2>2. RowMatches' /\ OneHolder' /\ InThePast' /\ ReadWasAnnounced'
    BY <1>5, <2>1
    DEF Transactions, RowMatches, OneHolder, Holds, InThePast, ReadWasAnnounced,
        RowsOf
  <2>3. HolderIsYoungest'
    <3> SUFFICES ASSUME NEW d \in Call, step'[d] = "enqueued",
                        NEW y \in RowsOf(order[d])'
                 PROVE  y.createdAt < row'[d].createdAt
      BY <1>5 DEF HolderIsYoungest, RowsOf
    <3>1. d # c /\ step[d] = "enqueued" /\ order[d] # order[c]
      BY <1>5 DEF Transactions, OneHolder, Holds
    <3>2. order'[d] = order[d] /\ y \in RowsOf(order[d])
      BY <1>5, <2>1, <3>1 DEF RowsOf
    <3> QED
      BY <1>5, <3>1, <3>2 DEF Transactions, HolderIsYoungest
  <2> QED
    BY <2>2, <2>3 DEF Transactions
<1>6. ASSUME NEW c \in Call, Return(c), UNCHANGED <<outbox, clock>>
      PROVE  Transactions'
  <2>1. /\ step'[c] = "idle"
        /\ \A d \in Call \ {c} : /\ step'[d] = step[d] /\ order'[d] = order[d]
                                 /\ row'[d] = row[d] /\ wanted'[d] = wanted[d]
                                 /\ current'[d] = current[d]
    BY <1>6 DEF Return, TypeOK
  <2> QED
    BY <1>6, <2>1
    DEF Transactions, RowMatches, OneHolder, Holds, HolderIsYoungest, InThePast,
        ReadWasAnnounced, RowsOf
<1>7. ASSUME NEW c \in Call, Commit(c)
      PROVE  Transactions'
  BY <1>5, <1>7 DEF Commit, TypeOK
<1>8. ASSUME NEW c \in Call, Wake(c) \/ Throws(c)
      PROVE  Transactions'
  <2>1. CASE UNCHANGED outbox
    BY <1>6, <1>8, <2>1 DEF Wake, Throws
  <2>2. CASE step[c] = "enqueued" /\ Committed(c)
    BY <1>5, <1>8, <2>2 DEF Wake, Throws, Return, TypeOK
  <2> QED
    BY <1>8, <2>1, <2>2 DEF Wake, Throws
<1> QED
  BY <1>1, <1>2, <1>3, <1>4, <1>7, <1>8 DEF Next, CreatePendingShipment, vars

-----------------------------------------------------------------------------
\* The commit of a transaction carries the story of its shipment on.
LEMMA CommitTells ==
  ASSUME Sound, NEW c \in Call, step[c] = "enqueued", Committed(c)
  PROVE  Story'
<1> DEFINE o == order[c]
           new == row[c]
<1>0. o \in Order
  BY DEF Sound, TypeOK
<1>1. /\ new \in Row /\ new.order = o /\ new.previous = current[c]
      /\ outbox' = outbox \cup {new}
      /\ \A p \in Order :
           /\ RowsOf(p)' = IF p = o THEN RowsOf(p) \cup {new} ELSE RowsOf(p)
           /\ shipment'[p] = IF p = o THEN new.current ELSE shipment[p]
      /\ \A y \in RowsOf(o) : y.createdAt < new.createdAt
  BY CommitAdds DEF Sound, Transactions
<1>2. \/ current[c] = Pending
      \/ \E y \in RowsOf(o) : y.current = current[c]
  BY DEF Sound, Transactions, ReadWasAnnounced
<1>3. StatusHasEvent'
  BY <1>0, EventKeepsTimeline DEF Sound, Story, Committed
<1> HIDE DEF o, new
<1>4. new.createdAt \in Nat /\ \A y \in outbox : y.createdAt \in Nat
  BY <1>1 DEF Sound, TypeOK, Row
<1>5. LastAnnouncedIsStatus'
  <2> SUFFICES ASSUME NEW p \in Order
               PROVE  IF RowsOf(p)' = {}
                        THEN shipment'[p] \in {Absent, Pending}
                        ELSE \E x \in RowsOf(p)' :
                               /\ shipment'[p] = x.current
                               /\ \A y \in RowsOf(p)' : y.createdAt <= x.createdAt
    BY DEF LastAnnouncedIsStatus
  <2>1. CASE p = o
    <3>1. new \in RowsOf(p)' /\ shipment'[p] = new.current
      BY <1>1, <2>1
    <3>2. \A y \in RowsOf(p)' : y.createdAt <= new.createdAt
      BY <1>1, <1>4, <2>1 DEF RowsOf
    <3> QED
      BY <3>1, <3>2
  <2>2. CASE p # o
    <3>1. RowsOf(p)' = RowsOf(p) /\ shipment'[p] = shipment[p]
      BY <1>1, <2>2
    <3> QED
      BY <3>1 DEF Sound, Story, LastAnnouncedIsStatus
  <2> QED
    BY <2>1, <2>2
<1>6. PreviousWasAnnounced'
  <2> SUFFICES ASSUME NEW x \in outbox'
               PROVE  \/ x.previous = Pending
                      \/ \E y \in RowsOf(x.order)' :
                           y.createdAt < x.createdAt /\ y.current = x.previous
    BY DEF PreviousWasAnnounced
  <2>1. CASE x \in outbox
    <3>1. RowsOf(x.order) \subseteq RowsOf(x.order)'
      BY <1>1 DEF RowsOf
    <3> QED
      BY <2>1, <3>1 DEF Sound, Story, PreviousWasAnnounced
  <2>2. CASE x = new
    BY <1>0, <1>1, <1>2, <2>2
  <2> QED
    BY <1>1, <2>1, <2>2
<1> QED
  BY <1>3, <1>5, <1>6 DEF Story

LEMMA StoryStep ==
  ASSUME Sound, [Next]_vars
  PROVE  Story'
<1> USE DEF inputs
<1>1. CASE UNCHANGED <<shipment, events, outbox>>
  BY <1>1
  DEF Sound, Story, LastAnnouncedIsStatus, PreviousWasAnnounced, StatusHasEvent,
      RowsOf
<1>2. ASSUME NEW o \in Order, CreatePendingShipment(o), shipment[o] = Absent
      PROVE  Story'
  <2>1. /\ shipment' = [shipment EXCEPT ![o] = Pending]
        /\ events' = events \cup {[order |-> o, status |-> Pending, change |-> 0]}
        /\ UNCHANGED outbox
    BY <1>2 DEF CreatePendingShipment, CreateShipment
  <2>2. RowsOf(o) = {}
    <3> SUFFICES ASSUME NEW x \in RowsOf(o), shipment[o] = x.current
                 PROVE  FALSE
      BY DEF Sound, Story, LastAnnouncedIsStatus
    <3>1. x.current \in Status
      BY DEF Sound, TypeOK, RowsOf, Row
    <3> QED
      BY <1>2, <3>1, ShipmentAssumption
  <2>3. LastAnnouncedIsStatus'
    BY <2>1, <2>2 DEF Sound, Story, LastAnnouncedIsStatus, RowsOf, TypeOK
  <2>4. PreviousWasAnnounced'
    BY <2>1 DEF Sound, Story, PreviousWasAnnounced, RowsOf
  <2>5. StatusHasEvent'
    BY <2>1, EventKeepsTimeline DEF Sound, Story
  <2> QED
    BY <2>3, <2>4, <2>5 DEF Story
<1> QED
  BY <1>1, <1>2, CommitTells, OnlyCommitsWrite DEF Next, vars, CreatePendingShipment

-----------------------------------------------------------------------------
LEMMA SoundInit == Init => Sound
<1> SUFFICES ASSUME Init
             PROVE  Sound
  OBVIOUS
<1>1. TypeOK
  BY SomeOrderIsOne, ShipmentAssumption DEF Init, TypeOK
<1>2. ClockCounted
  <2>1. Unstamped = {}
    BY DEF Init, Unstamped
  <2> QED
    BY <2>1, FS_EmptySet DEF Init, ClockCounted
<1>3. Transactions
  BY DEF Init, Transactions, RowMatches, OneHolder, Holds, HolderIsYoungest,
         InThePast, ReadWasAnnounced
<1>4. Story
  BY DEF Init, Story, LastAnnouncedIsStatus, PreviousWasAnnounced,
         StatusHasEvent, RowsOf
<1> QED
  BY <1>1, <1>2, <1>3, <1>4 DEF Sound

LEMMA SoundStep == Sound /\ [Next]_vars => Sound'
BY TypeStep, CountStep, TransactionsStep, StoryStep DEF Sound, Transactions

\* A row enters the outbox only as the youngest of its shipment.
LEMMA VisibleStep ==
  ASSUME Sound, [Next]_vars
  PROVE  \A o \in Order : \A x \in RowsOf(o)' \ RowsOf(o) : \A y \in RowsOf(o) :
           y.createdAt < x.createdAt
<1>1. CASE UNCHANGED outbox
  BY <1>1 DEF RowsOf
<1>2. ASSUME NEW c \in Call, step[c] = "enqueued", Committed(c),
             NEW o \in Order, NEW x \in RowsOf(o)' \ RowsOf(o), NEW y \in RowsOf(o)
      PROVE  y.createdAt < x.createdAt
  BY <1>2, CommitAdds DEF Sound, Transactions
<1> QED
  BY <1>1, <1>2, OnlyCommitsWrite DEF Next, vars, CreatePendingShipment

-----------------------------------------------------------------------------
(***************************************************************************)
(* The theorems.                                                           *)
(***************************************************************************)

\* Every variable keeps its type, and the stamps of the outbox rows stay within
\* the calls made.
THEOREM ShipmentsTypeCorrect == Spec => []TypeOK
<1>1. Sound => TypeOK
  BY DEF Sound
<1> QED
  BY <1>1, SoundInit, SoundStep, PTL DEF Spec

\* The last announcement of a shipment is its status, for any calls that overlap
\* and fail (updateShipmentStatus under the row lock of updateStatus).
THEOREM AnnouncedIsStatus == Spec => []LastAnnouncedIsStatus
<1>1. Sound => LastAnnouncedIsStatus
  BY DEF Sound, Story
<1> QED
  BY <1>1, SoundInit, SoundStep, PTL DEF Spec

\* Every previous status was announced by an older row, though it was read
\* before the lock was held (payload.previousStatus).
THEOREM PreviousIsAnnounced == Spec => []PreviousWasAnnounced
<1>1. Sound => PreviousWasAnnounced
  BY DEF Sound, Story
<1> QED
  BY <1>1, SoundInit, SoundStep, PTL DEF Spec

\* The rows of a shipment appear in the order of their createdAt, so that the
\* relay meets no older one after a younger (createdAt is taken under the lock).
THEOREM RowsAppearInOrder == Spec => VisibleInOrder
BY SoundInit, SoundStep, VisibleStep, PTL DEF Spec, VisibleInOrder
=============================================================================
