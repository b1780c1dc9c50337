SPECIFICATION Spec
CONSTANTS
  Boxes = 2
  TxSize = 2
  RxSize = 1
  ErrSize = 1
  ResetsOnBusOff = FALSE
  MaxWrite = 3
  MaxArrive = 0
  MaxError = 0
  MaxOff = 0
  MaxReset = 0
CHECK_DEADLOCK FALSE
INVARIANT OnlyWritten
