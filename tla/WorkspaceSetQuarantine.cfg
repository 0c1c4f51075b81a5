CONSTANTS
  a1 = a1
  r1 = r1
  Attempts = {a1}
  Repos = {r1}
  ReleaseClaims = 1
  MaxGeneration = 2
  MaxEvents <- MCMaxEvents
  None = None

SPECIFICATION Spec
INVARIANT MutationIsQuarantined
CHECK_DEADLOCK FALSE
