SPECIFICATION Spec
CONSTANTS
  Writers = {w1, w2}
  Readers = {r1}
  NoWriter = NoWriter
  MaxCalls = 2
  MaxFaults = 2
CHECK_DEADLOCK FALSE
INVARIANTS
  TypeOK
  NoRecordLost
  ReadIsGenuine
PROPERTIES
  AppendsAtomically
  RecordReturns
