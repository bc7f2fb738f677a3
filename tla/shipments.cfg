SPECIFICATION QuerySpec
CONSTANTS
  c1 = c1
  c2 = c2
  q1 = q1
  q2 = q2
  NoQuery = NoQuery
  Query <- Queries
  pending = pending
  moving = moving
  delivered = delivered
  absent = absent
  Call <- Calls
  Order <- Orders
  Status <- Statuses
  Pending = pending
  Absent = absent
  MaxCalls = 3
  MaxFaults = 2
SYMMETRY CallSymmetry
INVARIANTS
  TypeOK LastAnnouncedIsStatus PreviousWasAnnounced
  QueryTypeOK AnswersAreExplained MissingOpensNothing
PROPERTIES
  VisibleInOrder ProbeDecides
\* No further call may come.
CHECK_DEADLOCK FALSE
