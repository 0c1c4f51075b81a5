CONSTANTS
  c1 = c1
  c2 = c2
  Consumers = {c1}
  Ops = {1, 2}
  MaxClaims <- OnceThenTwice
  BatchSize = 2
  MaxRounds = 1
  MaxEvents = 2
  MaxFaults = 1
  MaxGeneration = 3
  None = None
  Gone = Gone

SPECIFICATION Spec
INVARIANTS TypeOK RowsFoldTheJournal OperationsTellTheGenerations
PROPERTY CutoverStands
CHECK_DEADLOCK FALSE
