SPECIFICATION Spec
CONSTANTS
  r1 = r1
  r2 = r2
  Relay <- TwoRelays
  Record <- TwoRecords
  BatchSize = 1
  MaxAttempts = 2
  CountsOnClaim = TRUE
  MaxFaults = 0
INVARIANT
  ClaimsAreExclusive
