SPECIFICATION Spec
CONSTANTS
  MaxCrashRestarts = 8
  Capped = FALSE
  MaxSignals = 1
CHECK_DEADLOCK FALSE
PROPERTY StopEnds
