CONSTANTS
  None = None
  r1 = r1
  r2 = r2
  stage = stage
  first = first
  second = second
  Registrars = {r1, r2}
  Dirs <- MCDirs
  Registers <- MCRegisters
  Commits = {c1, c2}
  c1 = c1
  c2 = c2
  FirstCommit = c1
  StudyTemplate <- MCStudyTemplate
  Implements <- MCImplements
  PlanTemplate <- MCPlanTemplate
  MaxRegisters = 2
  MaxLaunches = 2
  MaxUpsets = 2
SPECIFICATION Spec
SYMMETRY Symmetry
INVARIANTS
  LaunchIsSound
  EvidenceIsGenuine
  HonestRegistrationLaunches
PROPERTY
  RegistrationIsFinal
CHECK_DEADLOCK FALSE
