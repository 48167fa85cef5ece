CONSTANTS
  Connection = {k1}
  MaxQueries = 1
  Inputs = {"get", "window", "limit"}
  Joins = {"INNER", "SEMI"}
  Filters = {}
  LogicalPlans <- MCLogicalPlans
SPECIFICATION Spec
INVARIANT WindowsSeeAllRows
CHECK_DEADLOCK FALSE
