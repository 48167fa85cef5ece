CONSTANTS
  LogicalPlans <- MCLogicalPlans
  Plans = {}
  Shapes = {"left", "right", "iejoin", "ierhs", "union", "setop", "aggregate"}
  MaxExecutions = 1
SPECIFICATION PlanningSpec
INVARIANTS OwnedOnce OneOperatorInTree FiltersBuiltBeforeUse NoCircularWait OneSinkPerOperator
CHECK_DEADLOCK FALSE
