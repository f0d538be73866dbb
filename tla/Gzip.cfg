SPECIFICATION Spec
CONSTANTS
  Sizes <- MCSizes
  Bounds <- MCBounds
INVARIANTS
  TypeOK
  InBounds
  Complete
  NeverCutShort
CHECK_DEADLOCK FALSE
