SPECIFICATION Spec
CONSTANTS
  StepId = {a, b, c}
  PlanFiles <- MCPlanFiles
CHECK_DEADLOCK FALSE
INVARIANTS
  TypeOK
  AcceptsExactly
  VerdictIsTrue

