\* One externally decided NPC, and two messages queued before a tick.
SPECIFICATION FairSpec
CONSTANTS
  mara = mara
  jonas = jonas
  Continue = Continue
  Here = Here
  None = None
  Order <- MCSolo
  StartsFirm = {}
  Plan <- MCSoloPlan
  Conduct <- MCSoloConduct
  External = {mara}
  Fallback = "fallback"
  Offer <- MCOffer
  Forms <- MCForms
  Injurable = {}
  Hard = {h0, h1}
  Ttl = 2
  Cadence = 2
  EndTick = 3
  Retention = 2
  MaxQueued = 2
INVARIANT
  OneLaunchPerRequest
PROPERTY
  EveryRequestSettles
