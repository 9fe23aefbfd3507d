SPECIFICATION HealthSpec
CONSTANTS
  a = a
  b = b
  StepId = {a, b}
  PlanFiles <- MCPlanFiles
  DatabaseOf <- MCDatabaseOf
  McpFiles <- MCMcpFiles
  Environments <- MCEnvironments
  MaxRuns = 2
CHECK_DEADLOCK FALSE
INVARIANT
  ResolutionIsReported
