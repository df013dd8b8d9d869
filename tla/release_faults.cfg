SPECIFICATION Spec
CONSTANTS
  NETZ = NETZ
  Surplus = Surplus
  low = low
  high = high
  None = None
  Profiles <- MCProfiles
  Powers <- MCPowers
  Delays = {0}
  Durations <- MCDurations
  Grace = 1
  Cards = {c1, c2}
  Features = {"power", "times", "profile", "equivalent", "observe", "loss", "storage", "restart"}
  MaxOps = 4
  MaxTime = 2
INVARIANTS TypeOK GrantedProfile Durable
PROPERTIES NoStaleGrant RollbackOnlyLive
CHECK_DEADLOCK FALSE
SYMMETRY Symmetry
