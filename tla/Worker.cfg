SPECIFICATION FairSpec
CONSTANT Job = {j1}
CHECK_DEADLOCK FALSE
INVARIANTS
  NoJobOutlivesAnswer
  AnswerHonest
PROPERTIES
  StopKillsNoted
  CancelEndsJob
  JobsEnd
