CONSTANT Candidates <- RetryInBranch

SPECIFICATION Spec
INVARIANT JoinIsShared
CHECK_DEADLOCK FALSE
