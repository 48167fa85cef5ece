SPECIFICATION Spec
CONSTANTS
  ThreadCounts = {1, 2, 3, 4}
  MaxChunks = 5
  ParallelThreshold = 2
  Consumers = {TRUE}
INVARIANTS
  FilterComplete
  ScanIsComplete
PROPERTIES
  Completes
