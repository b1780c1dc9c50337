SPECIFICATION Spec
CONSTANTS
  TxSize = 2
  RxSize = 2
  NearFull = 1
  InMax = 2
  OutMax = 2
  MaxTx = 4
  MaxRx = 3
  MaxRequest = 5
  MaxEvent = 1
CHECK_DEADLOCK FALSE
INVARIANTS TypeOK TxStream RxStream NoTxStall TransfersEnd RxArmed
