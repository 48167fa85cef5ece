CONSTANTS
  MaxThreads = 2
  Externals = {x1}
  MaxSets = 0
  MaxQueries = 1
  TasksAsk = FALSE
SPECIFICATION Spec
PROPERTY ExternalThreadsReturn
CHECK_DEADLOCK FALSE
