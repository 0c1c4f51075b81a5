CONSTANT Candidates <- Documents

SPECIFICATION ProgressSpec
INVARIANTS TypeOK OverMeansQuiet OnePlaceAtATime JoinSpeaksForItsFork
INVARIANTS CyclesAreBounded NextStepCommits
PROPERTIES AnswerStands RunSettles
CHECK_DEADLOCK FALSE
