SPECIFICATION FairSpec
CONSTANTS
  r1 = r1
  r2 = r2
  Relay <- OneRelay
  Record <- TwoRecords
  BatchSize = 2
  MaxAttempts = 2
  CountsOnClaim = FALSE
  MaxFaults = 2
INVARIANTS
  TypeOK OneLoop WakeNotLost DuplicatesNeedFaults DeadIsExhausted
  DeadMeansUndelivered OvertakenOnlyAfterTry TriesAreCounted
PROPERTIES
  ImplementsOutbox RowsSettle
