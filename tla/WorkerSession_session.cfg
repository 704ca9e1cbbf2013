SPECIFICATION Spec
CONSTANTS
  Npc = ada
  Peer = bo
  None = None
  EndTick = 4
  Ttl = 1
  Travel = 2
  Shock = 2
  Loads = {"defers"}
  MaxCommands = 3
  MaxBatch = 2
  MaxRepeats = 1
  MaxPending = 1
INVARIANTS
  RoundTrip
  PausingChangesNothing
  ImportedIsTraceable
  PageShowsTheRun
CHECK_DEADLOCK FALSE
