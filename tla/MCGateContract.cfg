SPECIFICATION Spec
CONSTANT
  Unset = Unset
  Stages <- MCStages
  Contracts <- MCContracts
  Artifacts <- MCArtifacts
INVARIANT RepairPlanSuffices
PROPERTY GateMonotone
