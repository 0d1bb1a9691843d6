SPECIFICATION Spec
CONSTANTS
  NumStages = 4
  Requests <- MCRequests
  Outputs <- MCOutputs
  Stops = {"cancelled"}
  Costs = {1}
INVARIANTS
  PipelineInv
  CancelReachesStage
PROPERTIES
  SettledStable
  PipelineEnds
CHECK_DEADLOCK FALSE
