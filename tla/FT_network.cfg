SPECIFICATION Spec
CONSTANTS
  Thread = {t1, t2}
  NoThread = NoThread
  MaxFile = 3
  MaxJob = 3
  Limit <- LimitNetwork
SYMMETRY Symmetry
INVARIANTS TypeOK IInv OneRowPerPath ActiveIsWhole
PROPERTIES HandedInOrder
