SPECIFICATION Spec
CONSTANTS
  Unset = Unset
  NoPrediction = NoPrediction
  Learner = {ann, bob}
  Mission <- AnyMission
  Competency <- MCCompetency
  Kind <- MCKind
  Hypothesis = {h1}
  MaxSessions = 2
  MaxStages = 2
  NumStages <- AnyNumStages
  Experiments <- AnyExperiments
  Contract <- AnyContract
  Noded = {"M01", "M03"}
  Artifacts <- MCArtifacts
  Catalog <- AnyCatalog
  Blocking <- AnyBlocking
SYMMETRY Learners
CONSTRAINT FewEvents
INVARIANTS
  RecommendationAccepted
  CompletedStillPasses
  MasteryEarned
PROPERTY ImplementsJourney
