CONSTANTS
  Plans <- FilterPlans
  MaxExecutions = 1
  Workers = {w1}
  MaxTasks = 2
  MaxBlocks = 0
  MayFail = FALSE
  MayClose = FALSE
SPECIFICATION Spec
INVARIANT ExecutorOutlivesTasks
CHECK_DEADLOCK FALSE
