CONSTANTS
  MaxThreads = 3
  Externals = {x1}
  MaxSets = 2
  MaxQueries = 2
  TasksAsk = TRUE
SPECIFICATION Spec
INVARIANTS TypeOK NoLostWakeup NoThreadForgotten
PROPERTY SetThreadsReturns
CHECK_DEADLOCK FALSE
