SPECIFICATION Spec
CONSTANTS
  Texts <- MCTexts
  MaxLength = 5
  MaxBlock = 5
CHECK_DEADLOCK FALSE
INVARIANT
  AcceptedFileOpensWithConfig
