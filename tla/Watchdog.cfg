SPECIFICATION HostSpec
CONSTANTS
  MaxCrashRestarts = 2
  Capped = TRUE
  MaxSignals = 2
  Service <- MCService
CHECK_DEADLOCK FALSE
INVARIANTS
  NoOrphan
PROPERTIES
  WatchedStopEnds
  StartsSafely
  DevStops
