SPECIFICATION FairSpec
CONSTANTS
  Thread = {t1, t2}
  MaxFault = 3
  MaxAdmin = 2
  MaxRekey = 1
INVARIANTS TypeOK LockedOutByClash KeysFit SameNodeAgain
PROPERTY AgentJoins
CHECK_DEADLOCK FALSE
