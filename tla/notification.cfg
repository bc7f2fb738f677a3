SPECIFICATION Spec
CONSTANTS
  q1 = q1
  q2 = q2
  q3 = q3
  welcome = welcome
  refused = refused
  Run <- Runs
  Event <- Events
  Refused <- RefusedEvents
  ColumnsMatch = TRUE
  MaxFaults = 3
SYMMETRY RunSymmetry
INVARIANTS
  TypeOK TablesAgree RepeatsNeedFaults NoneLost
