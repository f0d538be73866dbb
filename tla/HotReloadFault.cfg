SPECIFICATION Spec
CONSTANTS
  b1 = b1
  b2 = b2
  k1 = k1
  Bases <- MCBases
  Kids <- MCKids
  MaxReloads = 1
  MaxPending = 1
  Client = Client
  Reserved = Reserved
  None = None
INVARIANTS
  SurvivesReload
CHECK_DEADLOCK FALSE
