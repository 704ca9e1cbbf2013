SPECIFICATION Spec
CONSTANTS
  mara = mara
  jonas = jonas
  rin = rin
  Order <- NpcOrder
  Deferring = {mara}
  Scripts <- Cases
  Habits <- Profiles
  Treating <- Healers
  Rate <- Rates
  Total = 9
  Travel = 2
  Eating = 2
  Social = 1
  Waiting = 1
  Block = 2
  WorsenDelay = 4
  Cooldown = 2
  Ttl = 1
  Start = 4
  Grace = 5
  MinRun = 2
  Buffer = 0
  GraceSpan = 1
  Minute = 2
  EndTick = 10
  None = None
INVARIANTS ReducerNeverThrows BooksAgree
PROPERTIES PromiseIsJudgedFairly ChangesAreEarned
