CONSTANTS
  a1 = a1
  a2 = a2
  r1 = r1
  r2 = r2
  Attempts = {a1, a2}
  Repos = {r1, r2}
  ReleaseClaims = 2
  MaxGeneration = 2
  MaxEvents <- MCMaxEvents
  None = None

SPECIFICATION Spec
SYMMETRY Symmetry
INVARIANTS TypeOK RunningWriterOwnsItsWorktrees ReleasedSetIsEmpty OneReadyWorktree
PROPERTIES ReleaseSparesEarlierWriters
CHECK_DEADLOCK FALSE
