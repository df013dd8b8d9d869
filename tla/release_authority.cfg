SPECIFICATION Spec
CONSTANTS
  NETZ = NETZ
  Surplus = Surplus
  low = low
  high = high
  None = None
  Profiles <- MCProfiles
  Powers <- MCPowers
  Delays = {0}
  Durations <- MCDurations
  Grace = 1
  Cards = {c1}
  Features = {"power", "loss"}
  MaxOps = 3
  MaxTime = 3
INVARIANT SettledRelease
CHECK_DEADLOCK FALSE
