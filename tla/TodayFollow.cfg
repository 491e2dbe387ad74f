SPECIFICATION FollowSpec
CONSTANTS
  Unset = Unset
  NoPrediction = NoPrediction
  Learner = {ann}
  Mission <- FollowMission
  Competency <- MCCompetency
  Kind <- MCKind
  Hypothesis = {h1}
  MaxSessions = 2
  MaxStages = 2
  NumStages <- FollowNumStages
  Experiments <- FollowExperiments
  Contract <- FollowContract
  Noded = {"M01", "M03"}
  Artifacts <- MCArtifacts
  Catalog <- FollowCatalog
  Blocking <- FollowBlocking
CHECK_DEADLOCK FALSE
INVARIANT SpineRespected
PROPERTY JourneyEnds
