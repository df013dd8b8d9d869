SPECIFICATION FairSpec
CONSTANTS
  NETZ = NETZ
  Surplus = Surplus
  low = low
  high = high
  None = None
  Profiles <- MCProfiles
  Powers = {low}
  Delays <- MCDelays
  Durations <- MCDurations
  Grace = 1
  Cards = {c1}
  Features = {"button", "times", "profile"}
  MaxOps = 3
  MaxTime = 3
INVARIANTS SettledRelease
PROPERTIES ActionsAnswered RunEnds
CHECK_DEADLOCK FALSE
