SPECIFICATION SerialSpec
CONSTANTS
  Invocations = {i1, i2}
  first = first
  second = second
  i1 = i1
  i2 = i2
  Plan <- OneAttempt
  Reasons = {"run-timeout", "invalid-treatment"}
  Retryable = {"run-timeout", "interrupted"}
  MaxReplacements = 1
  Evidentiary = TRUE
  ArchiveLimit = 2
  MaxCrashes = 1
  None = None
PROPERTIES EveryInvocationEnds
CHECK_DEADLOCK FALSE
