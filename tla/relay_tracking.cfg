SPECIFICATION Spec
CONSTANTS
  r1 = r1
  r2 = r2
  Relay <- TwoRelays
  Record <- TwoRecords
  BatchSize = 2
  MaxAttempts = 2
  CountsOnClaim = TRUE
  MaxFaults = 1
SYMMETRY RelaySymmetry
INVARIANTS
  DuplicatesNeedFaults OvertakenOnlyAfterTry TriesAreCounted
