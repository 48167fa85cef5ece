CONSTANTS
  MaxThreads = 3
  Externals = {}
  MaxSets = 1
  MaxQueries = 1
  TasksAsk = FALSE
SPECIFICATION Spec
INVARIANT EveryThreadHasItsState
CHECK_DEADLOCK FALSE
