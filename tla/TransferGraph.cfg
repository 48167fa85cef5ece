SPECIFICATION GraphSpec
CONSTANTS
  MaxTable = 4
  Table <- Tables
  Column = {0, 1}
  Cardinalities <- DistinctAndTied
  Queries <- AllQueries
INVARIANTS
  GraphTypeOK
  PreservedSideNotFiltered
  TransfersFollowExecOrder
  MaximumSpanningForest
CHECK_DEADLOCK FALSE
