CONSTANTS
  work = work
  control = control
  run1 = run1
  proj1 = proj1
  p1 = p1
  p2 = p2
  w1 = w1
  w2 = w2
  Jobs = {work, control}
  Runs = {run1}
  Projects = {proj1}
  Procs = {p1, p2}
  Workers = {w1, w2}
  None = None
  JobClass <- MCJobClass
  JobRun <- MCJobRun
  JobProject <- MCJobProject
  Priority <- MCPriority
  MaxClaims <- MCMaxClaims
  ProcOf <- MCProcOf
  Owner <- MCOwner
  LeaseTTL = 2
  MaxDelay <- MCMaxDelay
  MaxStops = 1

SPECIFICATION FairSpec
INVARIANTS TypeOK AtMostOneHolder LocalLeaseIsCurrent NoClaimIsLost
PROPERTIES CancelledRunIsNotClaimed LeaseSpec JobsSettle
CHECK_DEADLOCK FALSE
