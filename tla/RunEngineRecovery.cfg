CONSTANTS
  b1 = b1
  b2 = b2
  Branches = {b1, b2}
  Mutating = {b1}
  JoinMode = "ANY"
  QuorumCount = 0
  MaxAttempts <- TwiceEach
  MaxClaims = 1
  MaxFaults = 3
  None = None

SPECIFICATION Spec
INVARIANT BranchesAgree
CHECK_DEADLOCK FALSE
