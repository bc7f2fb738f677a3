SPECIFICATION Spec
CONSTANTS
  r1 = r1
  r2 = r2
  Relay <- OneRelay
  Record <- TwoRecords
  BatchSize = 2
  MaxAttempts = 3
  CountsOnClaim = TRUE
  MaxFaults = 0
INVARIANT
  DeadIsExhausted
