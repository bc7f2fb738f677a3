-------------------------- MODULE DlqRedrive_proofs --------------------------
(***************************************************************************)
(* Theorems about DlqRedrive: for any operators, messages, counts and      *)
(* faults, a redrive loses nothing, and multiplies a message only where a  *)
(* run was cut off.                                                        *)
(***************************************************************************)
EXTENDS DlqRedrive, FiniteSetTheorems, TLAPS

-----------------------------------------------------------------------------
(***************************************************************************)
(* The invariant.                                                          *)
(***************************************************************************)

\* A run holds a message between its get and its ack.
HoldsAtWork ==
  \A o \in Operator : got[o] # Nothing <=> tool[o] \in {"send", "ack"}

Senders(m) == {o \in Operator : tool[o] = "send" /\ got[o] = m}

Ackers(m) == {o \in Operator : tool[o] = "ack" /\ got[o] = m}

\* The copies of a message without those of the runs that have sent theirs on:
\* their ack changes nothing, and only a fault gives one back.
Weight(m) == dlq[m] + main[m] + handled[m] + Cardinality(Senders(m))

NothingLost == \A m \in Message \ shown : Weight(m) > 0

FaultsPayCopies == \A m \in Message : Weight(m) <= 1 + faults

Held == TypeOK /\ HoldsAtWork /\ NothingLost /\ FaultsPayCopies

-----------------------------------------------------------------------------
LEMMA SendersCount ==
  ASSUME NEW m
  PROVE  IsFiniteSet(Senders(m)) /\ Cardinality(Senders(m)) \in Nat
BY RedriveAssumption, FS_Subset, FS_CardinalityType DEF Senders

LEMMA PutCounts ==
  ASSUME NEW queue \in [Message -> Nat], NEW m \in Message
  PROVE  /\ Put(queue, m) \in [Message -> Nat]
         /\ \A n \in Message : Put(queue, m)[n] = queue[n] + IF n = m THEN 1 ELSE 0
BY DEF Put

LEMMA TakeCounts ==
  ASSUME NEW queue \in [Message -> Nat], NEW m \in Message, queue[m] > 0
  PROVE  /\ Take(queue, m) \in [Message -> Nat]
         /\ \A n \in Message : Take(queue, m)[n] = queue[n] - IF n = m THEN 1 ELSE 0
BY DEF Take

LEMMA WeightCounts ==
  ASSUME TypeOK, NEW m \in Message
  PROVE  Weight(m) \in Nat
BY SendersCount DEF Weight, TypeOK

\* A step of the tool or the consumer that, for each message, adds no more
\* copies than faults, and takes none but to show it.
LEMMA HeldKept ==
  ASSUME Held, TypeOK', HoldsAtWork', shown \subseteq shown', faults' >= faults,
         \A m \in Message :
           /\ Weight(m)' \in Int
           /\ Weight(m)' <= Weight(m) + (faults' - faults)
           /\ m \notin shown' => Weight(m)' >= Weight(m)
  PROVE  Held'
<1>1. NothingLost'
  BY WeightCounts DEF Held, NothingLost
<1>2. FaultsPayCopies'
  BY WeightCounts DEF Held, FaultsPayCopies, TypeOK
<1> QED
  BY <1>1, <1>2 DEF Held

\* What a step of one operator does to the weights, from what it does to the
\* queues.
LEMMA HeldMoves ==
  ASSUME Held, TypeOK', HoldsAtWork', NEW o \in Operator,
         UNCHANGED handled, shown \subseteq shown', faults' >= faults,
         \A p \in Operator \ {o} : tool'[p] = tool[p] /\ got'[p] = got[p],
         \A m \in Message :
           LET change == (dlq'[m] + main'[m]) - (dlq[m] + main[m])
               sends  == (IF tool'[o] = "send" /\ got'[o] = m THEN 1 ELSE 0)
                           - (IF tool[o] = "send" /\ got[o] = m THEN 1 ELSE 0)
           IN  /\ change + sends <= faults' - faults
               /\ m \notin shown' => change + sends >= 0
  PROVE  Held'
<1> DEFINE One(p) == IF p THEN 1 ELSE 0
<1>1. ASSUME NEW m \in Message
      PROVE  Cardinality(Senders(m)') =
               Cardinality(Senders(m)) + One(tool'[o] = "send" /\ got'[o] = m)
                 - One(tool[o] = "send" /\ got[o] = m)
  <2> DEFINE others == Senders(m) \ {o}
  <2>1. others = Senders(m)' \ {o}
    BY DEF Senders
  <2>2. IsFiniteSet(others) /\ Cardinality(others) \in Nat /\ o \notin others
    BY SendersCount, FS_RemoveElement, FS_CardinalityType
  <2>3. Senders(m) = IF tool[o] = "send" /\ got[o] = m THEN others \cup {o} ELSE others
    BY DEF Senders
  <2>4. Senders(m)' =
          IF tool'[o] = "send" /\ got'[o] = m THEN others \cup {o} ELSE others
    BY <2>1 DEF Senders
  <2>5. Cardinality(others \cup {o}) = Cardinality(others) + 1
    BY <2>2, FS_AddElement
  <2> HIDE DEF others
  <2> QED
    BY <2>2, <2>3, <2>4, <2>5
<1>2. \A m \in Message :
        LET change == (dlq'[m] + main'[m]) - (dlq[m] + main[m])
            sends  == One(tool'[o] = "send" /\ got'[o] = m)
                        - One(tool[o] = "send" /\ got[o] = m)
        IN  Weight(m)' = Weight(m) + change + sends
  BY <1>1, SendersCount DEF Weight, Held, TypeOK
<1> QED
  BY <1>2, WeightCounts, HeldKept DEF Held, TypeOK

-----------------------------------------------------------------------------
\* The broker takes back what a run holds, if it holds one.
LEMMA CloseCounts ==
  ASSUME TypeOK, HoldsAtWork, NEW o \in Operator, Close(o)
  PROVE  /\ dlq' \in [Message -> Nat]
         /\ \A m \in Message : dlq'[m] = dlq[m] + IF got[o] = m THEN 1 ELSE 0
         /\ got' \in [Operator -> Message \cup {Nothing}]
         /\ tool' \in [Operator -> {"off", "get", "send", "ack", "peek"}]
         /\ limit' \in [Operator -> Nat] /\ processed' \in [Operator -> Nat]
         /\ HoldsAtWork'
<1>1. /\ dlq' \in [Message -> Nat]
      /\ \A m \in Message : dlq'[m] = dlq[m] + IF got[o] = m THEN 1 ELSE 0
  <2>1. CASE got[o] = Nothing
    BY <2>1, RedriveAssumption DEF Close, TypeOK
  <2>2. CASE got[o] # Nothing
    BY <2>2, PutCounts DEF Close, TypeOK
  <2> QED
    BY <2>1, <2>2
<1>2. /\ got' \in [Operator -> Message \cup {Nothing}]
      /\ tool' \in [Operator -> {"off", "get", "send", "ack", "peek"}]
      /\ limit' \in [Operator -> Nat] /\ processed' \in [Operator -> Nat]
  BY DEF Close, TypeOK
<1>3. HoldsAtWork'
  BY DEF Close, HoldsAtWork, TypeOK
<1> QED
  BY <1>1, <1>2, <1>3

LEMMA HolderHoldsOne ==
  ASSUME TypeOK, HoldsAtWork, NEW o \in Operator, tool[o] \in {"send", "ack"}
  PROVE  got[o] \in Message
BY DEF TypeOK, HoldsAtWork

\* The steps between the get and the end of a run.
LEMMA WorkKeeps ==
  ASSUME Held, NEW o \in Operator,
         Get(o) \/ SendToQueue(o) \/ Ack(o) \/ SendThrows(o)
  PROVE  Held'
<1> USE RedriveAssumption DEF Held
<1>1. CASE Get(o)
  <2>1. PICK m \in Message : /\ dlq[m] > 0 /\ dlq' = Take(dlq, m)
                             /\ got' = [got EXCEPT ![o] = m]
    BY <1>1 DEF Get
  <2>2. /\ tool[o] = "get" /\ tool' = [tool EXCEPT ![o] = "send"]
        /\ UNCHANGED <<main, handled, limit, processed, shown, faults>>
    BY <1>1 DEF Get
  <2>3. /\ dlq' \in [Message -> Nat]
        /\ \A n \in Message : dlq'[n] = dlq[n] - IF n = m THEN 1 ELSE 0
    BY <2>1, TakeCounts DEF TypeOK
  <2>4. TypeOK' /\ HoldsAtWork'
    BY <2>1, <2>2, <2>3 DEF TypeOK, HoldsAtWork
  <2> QED
    BY <2>1, <2>2, <2>3, <2>4, HeldMoves DEF TypeOK
<1>2. CASE SendToQueue(o)
  <2>1. /\ tool[o] = "send" /\ got[o] \in Message
        /\ tool' = [tool EXCEPT ![o] = "ack"] /\ main' = Put(main, got[o])
        /\ UNCHANGED <<dlq, handled, got, limit, processed, shown, faults>>
    BY <1>2, HolderHoldsOne DEF SendToQueue
  <2>2. /\ main' \in [Message -> Nat]
        /\ \A n \in Message : main'[n] = main[n] + IF n = got[o] THEN 1 ELSE 0
    BY <2>1, PutCounts DEF TypeOK
  <2>3. TypeOK' /\ HoldsAtWork'
    BY <2>1, <2>2 DEF TypeOK, HoldsAtWork
  <2> QED
    BY <2>1, <2>2, <2>3, HeldMoves DEF TypeOK
<1>3. CASE Ack(o)
  <2>1. /\ tool[o] = "ack" /\ Iterate(o, processed[o] + 1)
        /\ UNCHANGED <<dlq, main, handled, limit, shown, faults>>
    BY <1>3 DEF Ack
  <2>2. TypeOK' /\ HoldsAtWork'
    BY <2>1 DEF Iterate, TypeOK, HoldsAtWork
  <2> QED
    BY <2>1, <2>2, HeldMoves DEF Iterate, TypeOK
<1>4. CASE SendThrows(o)
  <2>1. /\ tool[o] = "send" /\ got[o] \in Message
        /\ Iterate(o, processed[o]) /\ dlq' = Put(dlq, got[o])
        /\ faults' = faults + 1 /\ faults' \in 0 .. MaxFaults
        /\ UNCHANGED <<main, handled, limit, shown>>
    BY <1>4, HolderHoldsOne DEF SendThrows, Fault, TypeOK
  <2>2. /\ dlq' \in [Message -> Nat]
        /\ \A n \in Message : dlq'[n] = dlq[n] + IF n = got[o] THEN 1 ELSE 0
    BY <2>1, PutCounts DEF TypeOK
  <2>3. TypeOK' /\ HoldsAtWork'
    BY <2>1, <2>2 DEF Iterate, TypeOK, HoldsAtWork
  <2> QED
    BY <2>1, <2>2, <2>3, HeldMoves DEF Iterate, TypeOK
<1> QED
  BY <1>1, <1>2, <1>3, <1>4

\* The end of a run: only one that was cut off gives a copy back that is
\* elsewhere, too.
LEMMA CloseKeeps ==
  ASSUME Held, NEW o \in Operator, Finish(o) \/ EndPeek(o) \/ CutOff(o)
  PROVE  Held'
<1> USE DEF Held
<1>1. Close(o) /\ UNCHANGED <<main, handled, shown>>
  BY DEF Finish, EndPeek, CutOff
<1>2. /\ faults' \in 0 .. MaxFaults /\ faults' >= faults
      /\ faults' = faults + 1 \/ (faults' = faults /\ tool[o] \in {"get", "peek"})
  BY RedriveAssumption DEF Finish, EndPeek, CutOff, Fault, TypeOK
<1>3. TypeOK' /\ HoldsAtWork'
  BY <1>1, <1>2, CloseCounts DEF TypeOK
<1>4. /\ tool'[o] = "off"
      /\ \A p \in Operator \ {o} : tool'[p] = tool[p] /\ got'[p] = got[p]
  BY <1>1 DEF Close, TypeOK
<1>5. \A m \in Message :
        /\ dlq'[m] = dlq[m] + IF got[o] = m THEN 1 ELSE 0
        /\ got[o] = m => tool[o] \in {"send", "ack"}
  BY <1>1, CloseCounts, RedriveAssumption DEF HoldsAtWork
<1> QED
  BY <1>1, <1>2, <1>3, <1>4, <1>5, HeldMoves DEF TypeOK

\* A run that begins, and a peek that is shown a message.
LEMMA OperatorKeeps ==
  ASSUME Held, NEW o \in Operator,
         Redrive(o) \/ Peek(o) \/ \E m \in Message : Sent(o, m)
  PROVE  Held'
<1> USE RedriveAssumption DEF Held
<1>1. CASE Redrive(o) \/ Peek(o)
  <2>1. /\ tool[o] = "off"
        /\ tool' = [tool EXCEPT ![o] = "get"] \/ tool' = [tool EXCEPT ![o] = "peek"]
        /\ UNCHANGED <<dlq, main, handled, got, processed, shown, faults>>
    BY <1>1 DEF Redrive, Peek
  <2>2. limit' \in [Operator -> Nat]
    BY <1>1 DEF Redrive, Peek, TypeOK
  <2>3. TypeOK' /\ HoldsAtWork'
    BY <2>1, <2>2 DEF TypeOK, HoldsAtWork
  <2> QED
    BY <2>1, <2>3, HeldMoves DEF TypeOK
<1>2. ASSUME NEW m \in Message, Sent(o, m)
      PROVE  Held'
  <2>1. /\ dlq[m] > 0 /\ dlq' = Take(dlq, m) /\ shown' = shown \cup {m}
        /\ UNCHANGED <<main, handled, tool, got, limit, processed, faults>>
    BY <1>2 DEF Sent
  <2>2. /\ dlq' \in [Message -> Nat]
        /\ \A n \in Message : dlq'[n] = dlq[n] - IF n = m THEN 1 ELSE 0
    BY <2>1, TakeCounts DEF TypeOK
  <2>3. TypeOK' /\ HoldsAtWork'
    BY <2>1, <2>2 DEF TypeOK, HoldsAtWork
  <2> QED
    BY <2>1, <2>2, <2>3, HeldMoves DEF TypeOK
<1> QED
  BY <1>1, <1>2

LEMMA ConsumeKeeps ==
  ASSUME Held, NEW m \in Message, Consume(m)
  PROVE  Held'
<1> USE DEF Held
<1>1. /\ main[m] > 0 /\ main' = Take(main, m)
      /\ UNCHANGED <<tool, got, limit, processed, shown, faults>>
      /\ \/ dlq' = Put(dlq, m) /\ UNCHANGED handled
         \/ handled' = Put(handled, m) /\ UNCHANGED dlq
  BY DEF Consume
<1>2. /\ main' \in [Message -> Nat] /\ dlq' \in [Message -> Nat]
      /\ handled' \in [Message -> Nat]
      /\ \A n \in Message : main'[n] + dlq'[n] + handled'[n]
                            = main[n] + dlq[n] + handled[n]
  <2>1. /\ main' \in [Message -> Nat]
        /\ \A n \in Message : main'[n] = main[n] - IF n = m THEN 1 ELSE 0
    BY <1>1, TakeCounts DEF TypeOK
  <2>2. CASE dlq' = Put(dlq, m) /\ UNCHANGED handled
    <3>1. /\ dlq' \in [Message -> Nat]
          /\ \A n \in Message : dlq'[n] = dlq[n] + IF n = m THEN 1 ELSE 0
      BY <2>2, PutCounts DEF TypeOK
    <3> QED
      BY <2>1, <2>2, <3>1 DEF TypeOK
  <2>3. CASE handled' = Put(handled, m) /\ UNCHANGED dlq
    <3>1. /\ handled' \in [Message -> Nat]
          /\ \A n \in Message : handled'[n] = handled[n] + IF n = m THEN 1 ELSE 0
      BY <2>3, PutCounts DEF TypeOK
    <3> QED
      BY <2>1, <2>3, <3>1 DEF TypeOK
  <2> QED
    BY <1>1, <2>2, <2>3
<1>3. TypeOK' /\ HoldsAtWork'
  BY <1>1, <1>2 DEF TypeOK, HoldsAtWork
<1>4. \A n : Senders(n)' = Senders(n)
  BY <1>1 DEF Senders
<1>5. \A n \in Message : Weight(n)' = Weight(n)
  BY <1>2, <1>4, SendersCount DEF Weight, TypeOK
<1> QED
  BY <1>1, <1>3, <1>5, WeightCounts, HeldKept DEF TypeOK

LEMMA HeldInit == Init => Held
<1> SUFFICES ASSUME Init
             PROVE  Held
  OBVIOUS
<1>1. \A m : Senders(m) = {}
  BY DEF Init, Senders
<1>2. \A m \in Message : Weight(m) = 1
  BY <1>1, FS_EmptySet DEF Init, Weight
<1> QED
  BY <1>2, RedriveAssumption
  DEF Init, Held, TypeOK, HoldsAtWork, NothingLost, FaultsPayCopies

LEMMA HeldStep == Held /\ [Next]_vars => Held'
<1>1. ASSUME Held, UNCHANGED vars
      PROVE  Held'
  BY <1>1
  DEF vars, Held, TypeOK, HoldsAtWork, NothingLost, FaultsPayCopies, Weight, Senders
<1> QED
  BY <1>1, WorkKeeps, CloseKeeps, OperatorKeeps, ConsumeKeeps DEF Next, Work

-----------------------------------------------------------------------------
\* Who holds a message has it yet to send or yet to acknowledge.
LEMMA CopiesCount ==
  ASSUME Held, NEW m \in Message
  PROVE  Copies(m) + handled[m] = Weight(m) + Cardinality(Ackers(m))
<1> DEFINE holders == {o \in Operator : got[o] = m}
<1>1. holders = Senders(m) \cup Ackers(m) /\ Senders(m) \cap Ackers(m) = {}
  BY RedriveAssumption DEF Held, HoldsAtWork, Senders, Ackers
<1>2. IsFiniteSet(Ackers(m)) /\ Cardinality(Ackers(m)) \in Nat
  BY RedriveAssumption, FS_Subset, FS_CardinalityType DEF Ackers
<1>3. Cardinality(holders) = Cardinality(Senders(m)) + Cardinality(Ackers(m))
  <2>1. Cardinality(holders) = Cardinality(Senders(m)) + Cardinality(Ackers(m))
                                 - Cardinality(Senders(m) \cap Ackers(m))
    BY <1>1, <1>2, SendersCount, FS_Union
  <2>2. Cardinality(Senders(m) \cap Ackers(m)) = 0
    BY <1>1, FS_EmptySet
  <2> QED
    BY <1>2, <2>1, <2>2, SendersCount
<1> HIDE DEF holders
<1>4. Copies(m) = dlq[m] + main[m] + Cardinality(holders)
  BY DEF Copies, holders
<1> QED
  BY <1>2, <1>3, <1>4, SendersCount DEF Weight, Held, TypeOK

-----------------------------------------------------------------------------
(***************************************************************************)
(* The theorems.                                                           *)
(***************************************************************************)

\* Every variable keeps its type: no queue gives out what it does not hold.
THEOREM RedriveTypeCorrect == Spec => []TypeOK
<1>1. Held => TypeOK
  BY DEF Held
<1> QED
  BY <1>1, HeldInit, HeldStep, PTL DEF Spec

\* A redrive loses no message, wherever it is cut off and however many run at
\* the same time (sendToQueue comes before ack).
THEOREM NoMessageLost == Spec => []RedriveLosesNothing
<1>1. Held => RedriveLosesNothing
  <2> SUFFICES ASSUME Held, NEW m \in Message \ shown
               PROVE  Copies(m) > 0 \/ handled[m] > 0
    BY DEF RedriveLosesNothing, InSystem
  <2>1. Weight(m) > 0 /\ Weight(m) \in Nat /\ handled[m] \in Nat
    BY WeightCounts DEF Held, NothingLost, TypeOK
  <2>2. Cardinality(Ackers(m)) \in Nat
    BY RedriveAssumption, FS_Subset, FS_CardinalityType DEF Ackers
  <2>3. Copies(m) \in Int
    <3>1. Cardinality({o \in Operator : got[o] = m}) \in Nat
      BY RedriveAssumption, FS_Subset, FS_CardinalityType
    <3> QED
      BY <3>1 DEF Copies, Held, TypeOK
  <2> QED
    BY <2>1, <2>2, <2>3, CopiesCount
<1> QED
  BY <1>1, HeldInit, HeldStep, PTL DEF Spec

\* A redrive multiplies a message only where a run was cut off between
\* sendToQueue and ack, or is between them now.
THEOREM FaultsMultiply == Spec => []CopiesNeedFaults
<1>1. Held => CopiesNeedFaults
  <2> SUFFICES ASSUME Held, NEW m \in Message
               PROVE  Copies(m) + handled[m] <= 1 + faults + Cardinality(Ackers(m))
    BY DEF CopiesNeedFaults, Ackers
  <2>1. Weight(m) <= 1 + faults /\ Weight(m) \in Nat /\ faults \in Nat
    BY WeightCounts, RedriveAssumption DEF Held, FaultsPayCopies, TypeOK
  <2>2. Cardinality(Ackers(m)) \in Nat
    BY RedriveAssumption, FS_Subset, FS_CardinalityType DEF Ackers
  <2> QED
    BY <2>1, <2>2, CopiesCount
<1> QED
  BY <1>1, HeldInit, HeldStep, PTL DEF Spec
=============================================================================
