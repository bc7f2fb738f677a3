------------------------------ MODULE DlqRedrive ------------------------------
(***************************************************************************)
(* The dlq-redrive tool (tools/dlq-redrive) at work on one dead-letter     *)
(* queue, while the consumer of the target queue runs.                     *)
(*                                                                         *)
(* Each Operator is one shell that runs the tool, again and again.  The    *)
(* state is the broker's: how many ready copies of each message either     *)
(* queue holds, and what each channel of the tool has not acknowledged.    *)
(***************************************************************************)
EXTENDS Integers, FiniteSets

CONSTANTS
  Operator,
  Message,          \* messages the consumer rejected
  Hopeless,         \* those it will reject again
  Counts,           \* values of --count in use
  Nothing,          \* what a run holds that holds no message
  MaxFaults         \* bound on runs cut off and sends that throw

ASSUME RedriveAssumption ==
  /\ IsFiniteSet(Operator) /\ IsFiniteSet(Message)
  /\ Hopeless \subseteq Message
  /\ Counts \subseteq Nat
  /\ Nothing \notin Message
  /\ MaxFaults \in Nat

VARIABLES
  dlq,              \* ready copies of each message in the dead-letter queue
  main,             \* ready copies of each message in the target queue
  handled,          \* how often the consumer acknowledged each message
  tool,             \* of each operator: "off", "get", "send", "ack", "peek"
  got,              \* the message the run holds unacknowledged, or Nothing
  limit, processed, \* of a redrive: maxCount, and how many it counted
  shown,            \* messages a peek was sent
  faults

vars == <<dlq, main, handled, tool, got, limit, processed, shown, faults>>

TypeOK ==
  /\ dlq \in [Message -> Nat]
  /\ main \in [Message -> Nat]
  /\ handled \in [Message -> Nat]
  /\ tool \in [Operator -> {"off", "get", "send", "ack", "peek"}]
  /\ got \in [Operator -> Message \cup {Nothing}]
  /\ limit \in [Operator -> Nat]
  /\ processed \in [Operator -> Nat]
  /\ shown \subseteq Message
  /\ faults \in 0 .. MaxFaults

-----------------------------------------------------------------------------
Put(queue, m) == [queue EXCEPT ![m] = @ + 1]

Take(queue, m) == [queue EXCEPT ![m] = @ - 1]

Fault ==
  /\ faults < MaxFaults
  /\ faults' = faults + 1

\* Slip: channel.get is called with noAck, so nothing comes back.
CloseKeepsNothing(o) ==
  /\ got' = [got EXCEPT ![o] = Nothing]
  /\ tool' = [tool EXCEPT ![o] = "off"]
  /\ processed' = [processed EXCEPT ![o] = 0]
  /\ limit' = [limit EXCEPT ![o] = 0]
  /\ UNCHANGED dlq

\* connection.close(), in the finally block, or the end of the process: the
\* broker puts back what the channel holds.
Close(o) ==
  /\ dlq' = IF got[o] = Nothing THEN dlq ELSE Put(dlq, got[o])
  /\ got' = [got EXCEPT ![o] = Nothing]
  /\ tool' = [tool EXCEPT ![o] = "off"]
  /\ processed' = [processed EXCEPT ![o] = 0]
  /\ limit' = [limit EXCEPT ![o] = 0]

\* The redrive loop begins an iteration, or is done.
Iterate(o, n) ==
  /\ processed' = [processed EXCEPT ![o] = n]
  /\ tool' = [tool EXCEPT ![o] = "get"]
  /\ got' = [got EXCEPT ![o] = Nothing]

-----------------------------------------------------------------------------
(***************************************************************************)
(* redrive                                                                 *)
(***************************************************************************)

Redrive(o) ==
  /\ tool[o] = "off"
  /\ \E n \in Counts : limit' = [limit EXCEPT ![o] = n]
  /\ tool' = [tool EXCEPT ![o] = "get"]
  /\ UNCHANGED <<dlq, main, handled, got, processed, shown, faults>>

\* Slip: the empty answer of channel.get is not looked at.
GetUnchecked(o) ==
  /\ tool[o] = "get"
  /\ processed[o] < limit[o]
  /\ \E m \in Message :
       /\ dlq' = Take(dlq, m)
       /\ got' = [got EXCEPT ![o] = m]
  /\ tool' = [tool EXCEPT ![o] = "send"]
  /\ UNCHANGED <<main, handled, limit, processed, shown, faults>>

\* channel.get finds a message.
Get(o) ==
  /\ tool[o] = "get"
  /\ processed[o] < limit[o]
  /\ \E m \in Message :
       /\ dlq[m] > 0
       /\ dlq' = Take(dlq, m)
       /\ got' = [got EXCEPT ![o] = m]
  /\ tool' = [tool EXCEPT ![o] = "send"]
  /\ UNCHANGED <<main, handled, limit, processed, shown, faults>>

\* The limit is reached, or channel.get finds nothing.
Finish(o) ==
  /\ tool[o] = "get"
  /\ processed[o] >= limit[o] \/ \A m \in Message : dlq[m] = 0
  /\ Close(o)
  /\ UNCHANGED <<main, handled, shown, faults>>

SendToQueue(o) ==
  /\ tool[o] = "send"
  /\ main' = Put(main, got[o])
  /\ tool' = [tool EXCEPT ![o] = "ack"]
  /\ UNCHANGED <<dlq, handled, got, limit, processed, shown, faults>>

\* sendToQueue throws: the message goes back, and the loop gets it again.
SendThrows(o) ==
  /\ tool[o] = "send"
  /\ Fault
  /\ dlq' = Put(dlq, got[o])
  /\ Iterate(o, processed[o])
  /\ UNCHANGED <<main, handled, limit, shown>>

\* Slip: the loop does not count what it redrove.
AckUncounted(o) ==
  /\ tool[o] = "ack"
  /\ Iterate(o, processed[o])
  /\ UNCHANGED <<dlq, main, handled, limit, shown, faults>>

\* Slip: nack with requeue, as in the catch block.
NackInstead(o) ==
  /\ tool[o] = "ack"
  /\ dlq' = Put(dlq, got[o])
  /\ Iterate(o, processed[o] + 1)
  /\ UNCHANGED <<main, handled, limit, shown, faults>>

Ack(o) ==
  /\ tool[o] = "ack"
  /\ Iterate(o, processed[o] + 1)
  /\ UNCHANGED <<dlq, main, handled, limit, shown, faults>>

\* The tool is interrupted, or its connection breaks.
CutOff(o) ==
  /\ tool[o] # "off"
  /\ Fault
  /\ Close(o)
  /\ UNCHANGED <<main, handled, shown>>

-----------------------------------------------------------------------------
(***************************************************************************)
(* peek                                                                    *)
(***************************************************************************)

Peek(o) ==
  /\ tool[o] = "off"
  /\ tool' = [tool EXCEPT ![o] = "peek"]
  /\ UNCHANGED <<dlq, main, handled, got, limit, processed, shown, faults>>

\* The subscription has noAck set, and for the second it lives the broker
\* sends it whatever is ready, more than --count included.
Sent(o, m) ==
  /\ tool[o] = "peek"
  /\ dlq[m] > 0
  /\ dlq' = Take(dlq, m)
  /\ shown' = shown \cup {m}
  /\ UNCHANGED <<main, handled, tool, got, limit, processed, faults>>

EndPeek(o) ==
  /\ tool[o] = "peek"
  /\ Close(o)
  /\ UNCHANGED <<main, handled, shown, faults>>

-----------------------------------------------------------------------------
\* The consumer of the target queue takes a message, and acknowledges it or
\* has it dead-lettered again.
Consume(m) ==
  /\ main[m] > 0
  /\ main' = Take(main, m)
  /\ IF m \in Hopeless
       THEN dlq' = Put(dlq, m) /\ UNCHANGED handled
       ELSE handled' = Put(handled, m) /\ UNCHANGED dlq
  /\ UNCHANGED <<tool, got, limit, processed, shown, faults>>

Init ==
  /\ dlq = [m \in Message |-> 1]
  /\ main = [m \in Message |-> 0]
  /\ handled = [m \in Message |-> 0]
  /\ tool = [o \in Operator |-> "off"]
  /\ got = [o \in Operator |-> Nothing]
  /\ limit = [o \in Operator |-> 0]
  /\ processed = [o \in Operator |-> 0]
  /\ shown = {}
  /\ faults = 0

Work(o) == Get(o) \/ Finish(o) \/ SendToQueue(o) \/ Ack(o) \/ EndPeek(o)

Next ==
  \/ \E o \in Operator :
       Work(o) \/ Redrive(o) \/ SendThrows(o) \/ CutOff(o) \/ Peek(o)
  \/ \E o \in Operator, m \in Message : Sent(o, m)
  \/ \E m \in Message : Consume(m)

Spec == Init /\ [][Next]_vars

\* A run that is not cut off goes on, and the consumer consumes.
Fairness ==
  /\ \A o \in Operator : WF_vars(Work(o))
  /\ \A m \in Message : WF_vars(Consume(m))

FairSpec == Spec /\ Fairness

-----------------------------------------------------------------------------
(***************************************************************************)
(* Properties.                                                             *)
(***************************************************************************)

\* The copies of a message the broker has, ready or unacknowledged.
Copies(m) == dlq[m] + main[m] + Cardinality({o \in Operator : got[o] = m})

InSystem(m) == Copies(m) > 0 \/ handled[m] > 0

\* A redrive loses no message: what no peek took is in a queue, held by a run
\* or handled, wherever a run was cut off (the order of sendToQueue and ack).
RedriveLosesNothing == \A m \in Message \ shown : InSystem(m)

\* A message multiplies only where a run was cut off between sendToQueue and
\* ack, or is between them now.
CopiesNeedFaults ==
  \A m \in Message :
    Copies(m) + handled[m]
      <= 1 + faults + Cardinality({o \in Operator : tool[o] = "ack" /\ got[o] = m})

\* A redrive with a count ends, though the consumer dead-letters again what it
\* sends and other runs are at work on the queue (processed, and the get that
\* finds nothing).
RedriveEnds == \A o \in Operator : tool[o] # "off" ~> tool[o] = "off"

\* Peeking removes nothing from the dead-letter queue (the command's
\* description: "Peek messages from a DLQ without removing them").
PeekRemovesNothing == \A m \in shown : InSystem(m)
=============================================================================
