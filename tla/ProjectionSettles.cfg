CONSTANTS
  c1 = c1
  c2 = c2
  Consumers = {c1, c2}
  Ops = {1}
  MaxClaims <- TwiceEach
  BatchSize = 2
  MaxRounds = 1
  MaxEvents = 2
  MaxFaults = 1
  MaxGeneration = 3
  None = None
  Gone = Gone

SPECIFICATION FairSpec
PROPERTY ProjectionSettles
CHECK_DEADLOCK FALSE
