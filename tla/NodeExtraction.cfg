CONSTANTS
  Connection = {k1}
  MaxQueries = 2
  Inputs = {"get", "filter", "project", "computed", "order", "limit", "window", "rank", "total", "union", "group", "product", "not in", "correlated", "lateral"}
  Joins = {"INNER", "LEFT", "RIGHT", "SEMI", "RIGHT_SEMI", "MARK", "ANTI", "OUTER"}
  Filters = {"none", "mark", "not", "other"}
  LogicalPlans <- MCLogicalPlans
SPECIFICATION Spec
INVARIANTS TransfersCommute NotInKeepsRows NothingMissed FlagRestored
CHECK_DEADLOCK FALSE
