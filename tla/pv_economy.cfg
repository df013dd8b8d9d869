SPECIFICATION Spec
CHECK_DEADLOCK FALSE
CONSTANTS
  surplus = surplus
  optimum = optimum
  PVProfiles <- MCProfiles
  MaxAmps = 1
  Limit = 1
  Dwell = 1
  MaxTx = 2
  MaxOps = 2
  Unverified = FALSE
  None = None
SYMMETRY Alike
INVARIANTS TypeOK StopKept
PROPERTIES RestartEarned
