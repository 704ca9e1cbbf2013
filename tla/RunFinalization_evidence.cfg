SPECIFICATION Spec
CONSTANTS
  Requests <- MCRequests
  Routed = TRUE
  None = None
  StopFirst = TRUE
  MaxStory = 3
  MaxFinalizes = 2
  Repeated = FALSE
CHECK_DEADLOCK FALSE
INVARIANTS
  HonestRunCompletes
  DispositionTellsTruth
  LoaderIsRight
  CompletedLoads
PROPERTIES
  CompletedStays
