CONSTANTS
  Connection = {k1, k2}
  MaxQueries = 1
  Inputs = {"get", "project"}
  Joins = {"MARK"}
  Filters = {"not"}
  LogicalPlans <- MCLogicalPlans
SPECIFICATION Spec
INVARIANT NotInKeepsRows
CHECK_DEADLOCK FALSE
