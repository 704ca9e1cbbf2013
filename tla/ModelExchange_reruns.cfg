SPECIFICATION Spec
CONSTANTS
  m1 = m1
  m2 = m2
  Conditions = {m1, m2}
  Frozen = m1
  Baseline = Baseline
  MaxQueued = 1
  MaxCalls = 1
  MaxRuns = 2
  MaxHandshakes = 1
  Requests = 1
  MaxBooks = 1
  MaxCallsPerRun = 1
  MaxTotalCalls = 2
  MaxConcurrency = 1
  MaxStarts = 2
  DiskFaults = TRUE
  None = None
INVARIANTS
  RunsKeptApart
  EvidenceJoins
CHECK_DEADLOCK FALSE
