SPECIFICATION FairSpec
CONSTANTS
  Capacity = 2
  e1 = e1
  e2 = e2
  Elem <- MCElem
  NoElem = NoElem
  Pending = Pending
INVARIANTS TypeOK NoPreemptionInside
PROPERTIES IsFifo InterruptsReopen
