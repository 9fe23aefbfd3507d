SPECIFICATION Spec
CONSTANTS
  a = a
  b = b
  c = c
  StepId = {a, b, c}
  PlanFiles <- MCPlanFiles
  MaxRuns = 3
CHECK_DEADLOCK FALSE
INVARIANT
  UndisturbedRunSucceeds
