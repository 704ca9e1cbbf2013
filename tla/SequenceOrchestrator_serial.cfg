SPECIFICATION SerialSpec
CONSTANTS
  Invocations = {i1, i2}
  first = first
  second = second
  i1 = i1
  i2 = i2
  Plan <- TwoAttempts
  Reasons = {"run-timeout", "invalid-treatment"}
  Retryable = {"run-timeout", "interrupted"}
  MaxReplacements = 1
  Evidentiary = TRUE
  ArchiveLimit = 2
  MaxCrashes = 1
  None = None
SYMMETRY Swap
INVARIANTS TypeOK CompletedIsWhole CapacityHeld
PROPERTIES EvidenceIsFinal KeepsHistory
CHECK_DEADLOCK FALSE
