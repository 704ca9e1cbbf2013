SPECIFICATION Spec
CONSTANTS
  Requests <- MCRequests
  Routed = TRUE
  None = None
  StopFirst = FALSE
  MaxStory = 1
  MaxFinalizes = 1
  Repeated = FALSE
CHECK_DEADLOCK FALSE
INVARIANTS
  SummaryAgrees
