SPECIFICATION Spec
CONSTANTS
  a = a
  b = b
  r = r
  v1 = v1
  v2 = v2
  v3 = v3
  n1 = n1
  n2 = n2
  Upload = {a, b}
  Record = {r}
  Size <- Sizes
  MB = 2
  Node = {n1}
  Volume = {v1, v2, v3}
  Home <- AllOnOne
  Quota <- Quotas
  Priority <- Priorities
  StoreAll = {}
  Id <- Ids
  Setting <- Installations
  MaxJobs = 2
INVARIANTS TypeOK   RemovedVolumesDrain
