SPECIFICATION Spec
CONSTANTS
  Boxes = 2
  TxSize = 2
  RxSize = 1
  ErrSize = 1
  ResetsOnBusOff = TRUE
  MaxWrite = 3
  MaxArrive = 2
  MaxError = 1
  MaxOff = 1
  MaxReset = 1
CHECK_DEADLOCK FALSE
INVARIANTS TxStream RxStream NoTxStall NoRxStall NoStaleErrors
