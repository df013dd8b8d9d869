SPECIFICATION FairSpec
CHECK_DEADLOCK FALSE
CONSTANTS
  None = None
  Diagnostics <- MCDiagnostics
  Modes <- MCModes
  Caps <- MCCaps
  Batteries = {TRUE, FALSE}
  Flow = 6000
  Surpluses <- MCSurpluses
  Vehicles = {0, 2500, 20000}
  Deadband = 100
  Uptake = 50
  Hold = 2
  Increase = 2
  Decrease = 1
  MaxOps = 2
PROPERTIES Cadence
PROPERTIES Settles
