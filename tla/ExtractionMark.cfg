CONSTANTS
  Connection = {k1}
  MaxQueries = 1
  Inputs = {"get", "project"}
  Joins = {"MARK"}
  Filters = {"none"}
  LogicalPlans <- MCLogicalPlans
SPECIFICATION Spec
INVARIANT MarkJoinsKeepRows
CHECK_DEADLOCK FALSE
