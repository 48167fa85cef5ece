CONSTANTS
  MaxThreads = 3
  Externals = {}
  MaxSets = 1
  MaxQueries = 1
  TasksAsk = TRUE
SPECIFICATION Spec
PROPERTY SetThreadsAlwaysReturns
CHECK_DEADLOCK FALSE
