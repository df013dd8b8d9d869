SPECIFICATION Spec
CONSTANTS
  Points <- MCPhases
  Own <- MCOwn
  Transactions = {t1}
  Features = {"permission"}
  MaxOps = 3
  None = None
INVARIANT StopReached
CHECK_DEADLOCK FALSE
