CONSTANTS
  Plans <- FilterPlans
  MaxExecutions = 1
  Workers = {w1}
  MaxTasks = 2
  MaxBlocks = 0
  MayFail = FALSE
  MayClose = TRUE
SPECIFICATION Spec
PROPERTY CloseEnds
CHECK_DEADLOCK FALSE
