SPECIFICATION FairSpec
CONSTANTS
  Buffer = 2
  MaxCalls = 2
  MaxOthers = 2
  MaxBytes = 3
CHECK_DEADLOCK FALSE
INVARIANTS Writes Reads SlaveSide
PROPERTY CallsReturn
