SPECIFICATION Spec
CONSTANTS
  None = None
  MaxOps = 3
  MaxCalls = 2
  Stations <- MCStations
  Features <- MCFeatures
CHECK_DEADLOCK FALSE
INVARIANTS TypeOK ConfirmedTrue HeldIsTrue
PROPERTIES LastWriteAgrees NoStaleWrite Answered
