SPECIFICATION Spec
CONSTANTS
  Mission = {"M01"}
  Competency = {"a"}
  Competencies <- MCCompetencies
  Records <- MCRecords
  HandSignals <- MCHandSignals
  INTERVALS_DAYS <- MCIntervals
  REPAIR_DAYS = 1
  Levels = 4
  Dashboard = {"d1"}
  MaxCalls = 5
  MaxDay = 2
  Torn = Torn
  None = None
INVARIANTS OneOpenEvent ToldStaysTrue ModelAgrees LadderKept
CHECK_DEADLOCK FALSE
