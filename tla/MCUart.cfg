SPECIFICATION FairSpec
CONSTANTS
  Controls = {"NO_CONTROL", "RTS_CTS", "XON_XOFF"}
  TxSize = 2
  RxSize = 2
  NearFull = 1
  Fifo = 2
  WFifo = 2
  Slack = 0
  MaxTx = 3
  MaxRx = 3
  MaxFlips = 2
CHECK_DEADLOCK FALSE
INVARIANTS TypeOK TxStream RxStream NoRxLoss NoTxStall MarksInTurn
PROPERTIES AllSent PeerGoesOn
