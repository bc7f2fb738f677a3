------------------------------- MODULE Outbox -------------------------------
(***************************************************************************)
(* What the transactional outbox promises, with no relay in sight.  A row  *)
(* stored with its aggregate is handed to the broker any number of times,  *)
(* is marked published only once the broker has it, and may instead be     *)
(* given up.  Nothing is handed over that was not stored, and no mark is   *)
(* ever taken back.  OutboxRelay implements this specification.            *)
(***************************************************************************)
EXTENDS Naturals

CONSTANT Record          \* the rows of the outbox table

VARIABLES
  stored,                \* rows committed together with their aggregate
  held,                  \* copies of each row's message the broker accepted
  published,             \* rows with publishedAt set
  dead                   \* rows with deadAt set

vars == <<stored, held, published, dead>>

Init ==
  /\ stored = {}
  /\ held = [i \in Record |-> 0]
  /\ published = {}
  /\ dead = {}

Store(i) ==
  /\ i \notin stored
  /\ stored' = stored \cup {i}
  /\ UNCHANGED <<held, published, dead>>

Deliver(i) ==
  /\ i \in stored
  /\ held' = [held EXCEPT ![i] = @ + 1]
  /\ UNCHANGED <<stored, published, dead>>

MarkPublished(i) ==
  /\ held[i] > 0
  /\ published' = published \cup {i}
  /\ UNCHANGED <<stored, held, dead>>

GiveUp(i) ==
  /\ i \in stored
  /\ dead' = dead \cup {i}
  /\ UNCHANGED <<stored, held, published>>

Next == \E i \in Record : Store(i) \/ Deliver(i) \/ MarkPublished(i) \/ GiveUp(i)

Spec == Init /\ [][Next]_vars
=============================================================================
