SPECIFICATION Spec
CONSTANTS
  Thread = {t1, t2}
  NoThread = NoThread
  MaxFile = 4
  MaxJob = 3
  Limit <- LimitGhost
INVARIANT DeletedStaysDeleted
