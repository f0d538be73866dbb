SPECIFICATION Spec
CONSTANTS
  p1 = p1
  p2 = p2
  Procs <- MCProcs
  MaxVersion = 2
  MaxTime = 1
  MaxStarts = 2
  None = None
INVARIANTS
  TypeOK
  NobSurvives
  WorksWithNewCode
PROPERTIES
  BuiltWhatItSays
  Terminates
CHECK_DEADLOCK FALSE
