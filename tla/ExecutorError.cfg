CONSTANTS
  Plans <- PlainPlans
  MaxExecutions = 1
  Workers = {w1}
  MaxTasks = 2
  MaxBlocks = 0
  MayFail = TRUE
  MayClose = FALSE
SPECIFICATION Spec
INVARIANT ExecutorOutlivesTasks
CHECK_DEADLOCK FALSE
