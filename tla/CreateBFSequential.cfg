SPECIFICATION Spec
CONSTANTS
  ThreadCounts = {2}
  MaxChunks = 3
  ParallelThreshold = 2
  Consumers = {FALSE}
INVARIANTS
  ScanIsComplete
