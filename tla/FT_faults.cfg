SPECIFICATION Spec
CONSTANTS
  Thread = {t1, t2}
  NoThread = NoThread
  MaxFile = 5
  MaxJob = 2
  Limit <- LimitFaults
SYMMETRY Symmetry
INVARIANTS Durable WipedStaysWiped ActiveOnNode StrandedByFaults
PROPERTIES KeepsCustody OnlyStaleEditsTurnBack
