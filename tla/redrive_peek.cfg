SPECIFICATION Spec
CONSTANTS
  o1 = o1
  o2 = o2
  fixed = fixed
  hopeless = hopeless
  Operator <- Operators
  Message <- Messages
  Hopeless <- StillHopeless
  Counts <- OneOrTwo
  Nothing = Nothing
  MaxFaults = 2
INVARIANT
  PeekRemovesNothing
