SPECIFICATION Spec
CONSTANTS
  m1 = m1
  m2 = m2
  Conditions = {m1, m2}
  Frozen = m1
  Baseline = Baseline
  MaxQueued = 1
  MaxCalls = 1
  MaxRuns = 1
  MaxHandshakes = 1
  Requests = 2
  MaxBooks = 1
  MaxCallsPerRun = 2
  MaxTotalCalls = 2
  MaxConcurrency = 2
  MaxStarts = 1
  DiskFaults = TRUE
  None = None
INVARIANTS
  LimitsHold
PROPERTIES
  EveryRequestAnswered
CHECK_DEADLOCK FALSE
