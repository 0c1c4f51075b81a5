CONSTANTS
  o1 = o1
  o2 = o2
  Ops = {o1, o2}
  MaxClaims = 2
  MaxEvents = 4
  Outside = Outside
  None = None

SPECIFICATION Spec
SYMMETRY Symmetry
INVARIANTS TypeOK OperationsTellTheLog
PROPERTIES RevisionOnlyAdvances
CHECK_DEADLOCK FALSE
