SPECIFICATION RobustSpec
CONSTANTS
  None = None
  k1 = k1
  k2 = k2
  Key = {k1, k2}
  LEDGER_KEY = k1
  MaxSteps = {2}
  SafetyCeiling <- MCSafetyCeiling
  ABSOLUTE_CEILING = 32
  MaxRuns = 3
  MAX_STEPS = 8
  FAIL_STEPS = 4
  Attempts = {1, 2, 3}
  Thresholds = {1, 2, 3}
CHECK_DEADLOCK FALSE
INVARIANTS
  EffectsHonest
  LadderHonest
PROPERTIES
  RunEnds
