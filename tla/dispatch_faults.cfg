SPECIFICATION Spec
CONSTANTS
  Points <- MCPhases
  Own <- MCOwn
  Transactions = {t1}
  Features = {"network", "boot", "timeout", "unreadable", "lockout", "storage"}
  MaxOps = 3
  None = None
INVARIANTS ShownIsOffered EndReported StopReached
PROPERTIES StaleTaskSilent
CHECK_DEADLOCK FALSE
