CONSTANTS
  b1 = b1
  b2 = b2
  Branches = {b1, b2}
  MaxRuns = 2
  MaxActivations = 2
  MaxEvents = 2

SPECIFICATION FairSpec
INVARIANTS TypeOK StatusTellsTheRuns BlockedWorkIsTakenUpOnce
PROPERTIES CancellationStands ItemSettles
CHECK_DEADLOCK FALSE
