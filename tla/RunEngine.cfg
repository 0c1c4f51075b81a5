CONSTANTS
  b1 = b1
  b2 = b2
  Branches = {b1, b2}
  Mutating = {b1}
  JoinMode = "ALL"
  QuorumCount = 0
  MaxAttempts <- TwiceThenOnce
  MaxClaims = 2
  MaxFaults = 1
  None = None

SPECIFICATION FairSpec
INVARIANTS TypeOK BranchesAgree SettledRunIsQuiet OrphanIsNeverHeld
PROPERTIES CancelStopsAttempts RunSettles
CHECK_DEADLOCK FALSE
