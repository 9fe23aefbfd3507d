SPECIFICATION Spec
CONSTANTS
  a = a
  b = b
  c = c
  StepId = {a, b, c}
  PlanFiles <- MCPlanFiles
  MaxRuns = 3
CHECK_DEADLOCK FALSE
INVARIANTS
  TypeOK
  DependenciesCommitted
  CommittedPrefix
  LogIsTrue
  FailureEndsRun
  AtMostOneUnreported
  LogHoldsRecentHistory
  NothingInherited
  SuccessIsComplete
  OnlyDisturbedRunsFail
PROPERTIES
  RunEnds
  ImplementsPipeline
