CONSTANTS
  Plans <- AllPlans
  MaxExecutions = 1
  Workers = {w1}
  MaxTasks = 2
  MaxBlocks = 1
  MayFail = TRUE
  MayClose = TRUE
SPECIFICATION Spec
INVARIANTS TypeOK CountersAgree NoTaskLost InputsComplete ReadyMeansDone CloseWaitsForTasks
PROPERTIES QueryEnds CancelEnds
CHECK_DEADLOCK FALSE
