SPECIFICATION Spec
CONSTANTS
  Scheduled <- NoWorkers
  Outside <- MainAndExternal
  Batches <- TwoBatches
  Probes <- Chunks
  NumMasks = 2
  Mask <- TwoMasks
  LogNumBlocks = 2
  LogNumPrtns = 1
  KeptTogether = 1
  Unroll = 2
  PrefetchLimit = 3
  PrefetchIterations = 3
  Width = 3
  SortRows = 7
  SortPrtns = 4
INVARIANTS NoFalseNegatives
