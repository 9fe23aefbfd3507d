SPECIFICATION Spec
CONSTANTS
  Tables <- MCTables
  References <- MCReferences
  Pk = {"p1", "p2", "p3"}
  Arg = {"a", "b"}
  Key = {"p1", "p2", "p3", "b1", "b2"}
  Value = {"x", "y"}
  Null = "NULL"
  KeyUdf <- MCKeyUdf
  Udf <- MCUdf
  Worlds <- MCWorlds
  Loads <- MCLoads
  MaxCalls = 2
  MaxChanges = 1
CHECK_DEADLOCK FALSE
INVARIANTS
  TypeOK
  PassIsTrue
  FailIsTrue
  StatusCoversAll
PROPERTIES
  CallEnds
