SPECIFICATION Spec
CONSTANTS
  Handler = {h1, h2}
  User = {1, 2}
  Name = {ann, bob}
  File = {1, 2, 3, 4}
  ann = ann
  bob = bob
  Setting <- Settings
INVARIANTS TypeOK HasSpace GoneLeavesNoSpace
 
CHECK_DEADLOCK FALSE
