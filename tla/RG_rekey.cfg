SPECIFICATION Spec
CONSTANTS
  Thread = {t1, t2}
  MaxFault = 3
  MaxAdmin = 2
  MaxRekey = 1
INVARIANT RekeyedAgentWorks

CHECK_DEADLOCK FALSE
