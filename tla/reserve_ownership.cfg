SPECIFICATION Spec
CONSTANTS
  Low = 0
  High = 4
  Step = 2
  None = None
  MaxOps = 5
  UserLevels <- MCUserLevels
  Wishes <- MCWishes
  Socs <- MCSocs
  Features <- MCFeatures
CHECK_DEADLOCK FALSE
INVARIANTS TypeOK OriginalKept Followed
PROPERTIES ExternalWins KeepsContract Released
