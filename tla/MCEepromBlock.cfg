SPECIFICATION Spec
CONSTANTS
  DataSize = 2
  Slots = 2
  Radix = 2
  BYTESIZE = 2
  CounterBytes = 2
  FlagBytes = 2
  TornFullFlag = FALSE
  None = None
INVARIANTS IInv
PROPERTIES IsDurable
