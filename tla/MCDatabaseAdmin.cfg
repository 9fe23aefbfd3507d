SPECIFICATION Spec
CONSTANTS
  Admins = {p, q}
  Clients = {engine}
  Unmanaged = {"other_db"}
  Requests <- MCRequests
  MaxCalls = 2
CHECK_DEADLOCK FALSE
INVARIANTS
  TypeOK
  ResetIsFresh
  ResetIsComplete
  PartialReset
  BootstrapIsComplete
  OrderSatisfiesNeeds
PROPERTIES
  UnmanagedKept
  CallEnds
