SPECIFICATION Spec
CONSTANTS
  Points <- MCCurrents
  Own <- MCOwn
  Transactions = {t1}
  Features = {"apply", "equivalent", "deadline", "authority", "capability", "permission", "again"}
  MaxOps = 3
  None = None
INVARIANTS TypeOK ConfirmedIsDone PlannedStartRenewed
CHECK_DEADLOCK FALSE
