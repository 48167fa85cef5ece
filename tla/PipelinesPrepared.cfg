CONSTANTS
  LogicalPlans <- MCLogicalPlans
  Plans = {}
  Shapes = {"left"}
  MaxExecutions = 2
SPECIFICATION PlanningSpec
INVARIANT DependenciesAreScheduled
CHECK_DEADLOCK FALSE
