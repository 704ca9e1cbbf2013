SPECIFICATION Spec
CONSTANTS
  Kinds = {"baseline", "model", "drill"}
  Squatters = {"visible", "hidden"}
  MaxExecutions = 1
  MaxLoads = 2
  MaxTick = 2
  StopTick = 1
  RunTimeout = 3
  StallTimeout = 1
  StallGrace = 1
INVARIANTS
  CompletionIsEarned
  HealthTellsTheTruth
  FailureKeepsEvidence
PROPERTIES
  EveryExecutionEnds
