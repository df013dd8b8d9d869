SPECIFICATION Spec
CONSTANTS
  None = None
  MaxTime = 4
  MaxOps = 1
  MaxQueue = 2
  BOUNDARY_AGE = 1
CHECK_DEADLOCK FALSE
INVARIANTS TypeOK ActiveIsTrue IdleIsTrue EnergyTrue
