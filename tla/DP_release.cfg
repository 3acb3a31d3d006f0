SPECIFICATION FairSpec
CONSTANTS
  Download = {d1, d2}
  Pools = {2, 3}
  Chunks = 1
  MaxLate = 1
  Faults = 1
PROPERTIES SessionsReleased DownloadsArrive
CHECK_DEADLOCK FALSE
