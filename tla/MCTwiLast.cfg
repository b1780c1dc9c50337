SPECIFICATION Spec
CONSTANTS
  Buffer = 2
  MaxCalls = 2
  MaxOthers = 2
  MaxBytes = 3
CHECK_DEADLOCK FALSE
INVARIANT LastByteAgain
