SPECIFICATION Spec
CONSTANTS
  Download = {d1, d2}
  Pools = {2}
  Chunks = 2
  MaxLate = 1
  Faults = 2
SYMMETRY Symmetry
INVARIANTS TypeOK EndMeansWhole
PROPERTY TimeoutsExplained
CHECK_DEADLOCK FALSE
