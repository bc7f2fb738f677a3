-------------------------------- MODULE Inbox --------------------------------
(***************************************************************************)
(* What an idempotent consumer promises about its queue.  The queue may    *)
(* carry several copies of an event.  An event takes effect at most once,  *)
(* a copy is acknowledged only after its event took effect, and only an    *)
(* event the consumer cannot read is dead-lettered.  IdempotentConsumer    *)
(* implements this specification.                                          *)
(***************************************************************************)
EXTENDS Naturals

CONSTANTS
  Copy,           \* message copies the broker routes to the queue
  Event,
  EventOf,        \* [Copy -> Event]
  Buriable        \* events whose copies may be dead-lettered

VARIABLES
  place,          \* of each copy: "unsent", "pending", "gone" or "dlq"
  applied         \* how often each event took effect

vars == <<place, applied>>

Init ==
  /\ place = [c \in Copy |-> "unsent"]
  /\ applied = [e \in Event |-> 0]

Move(c, from, to) ==
  /\ place[c] = from
  /\ place' = [place EXCEPT ![c] = to]
  /\ UNCHANGED applied

Send(c) == Move(c, "unsent", "pending")

Apply(e) ==
  /\ \E c \in Copy : EventOf[c] = e /\ place[c] # "unsent"
  /\ applied[e] = 0
  /\ applied' = [applied EXCEPT ![e] = 1]
  /\ UNCHANGED place

Discard(c) == applied[EventOf[c]] > 0 /\ Move(c, "pending", "gone")

Bury(c) == EventOf[c] \in Buriable /\ Move(c, "pending", "dlq")

Next ==
  \/ \E c \in Copy : Send(c) \/ Discard(c) \/ Bury(c)
  \/ \E e \in Event : Apply(e)

Spec == Init /\ [][Next]_vars
=============================================================================
