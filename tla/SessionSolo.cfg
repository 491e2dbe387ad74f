SPECIFICATION Spec
CONSTANTS
  Unset = Unset
  NoPrediction = NoPrediction
  Learner = {ann}
  Mission <- SoloMission
  Competency <- MCCompetency
  Kind <- MCKind
  Hypothesis = {h1, h2}
  MaxSessions = 1
  MaxStages = 3
  NumStages <- SoloNumStages
  Experiments <- SoloExperiments
  Contract <- SoloContract
  Noded = {"M01"}
  Artifacts <- SoloArtifacts
SYMMETRY Hypotheses
INVARIANTS
  PipelineOrder
  PredictionSealed
  EvidenceProvenance
  ActivityTruthful
PROPERTIES
  SubmissionFinal
  CompletedFrozen
