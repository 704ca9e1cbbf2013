\* mara's requests are answered from outside, jonas's in the call.
SPECIFICATION Spec
CONSTANTS
  mara = mara
  jonas = jonas
  Continue = Continue
  Here = Here
  None = None
  Order <- MCOrder
  StartsFirm <- MCStartsFirm
  Plan <- MCPlan
  Conduct <- MCConduct
  External = {mara}
  Fallback = "fallback"
  Offer <- MCOffer
  Forms <- MCForms
  Injurable = {mara}
  Hard = {h0, h1}
  Ttl = 1
  Cadence = 2
  EndTick = 3
  Retention = 2
  MaxQueued = 1
SYMMETRY HardSymmetry
INVARIANTS
  TypeOK
  OneFatePerRequest
  RegistryTellsTheTruth
  NobodyIsForgotten
  IncapacitatedNeverActs
PROPERTY
  ImplementsRequestBook
