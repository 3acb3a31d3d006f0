SPECIFICATION Spec
CONSTANTS
  a = a
  b = b
  r = r
  v1 = v1
  v2 = v2
  v3 = v3
  n1 = n1
  n2 = n2
  Upload = {a, b}
  Record = {r}
  Size <- Sizes
  MB = 2
  Node = {n1, n2}
  Volume = {v1, v2}
  Home <- Apart
  Quota <- SmallFirst
  Priority <- Priorities
  StoreAll = {n1}
  Id <- Ids
  Setting <- TwoNodes
  MaxJobs = 2
PROPERTY RefusedOnlyWhenFull
CHECK_DEADLOCK FALSE
