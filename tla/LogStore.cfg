SPECIFICATION Spec
CONSTANTS
  Keep = 2
  MovMax = 3
  MaxRange = 4
  MaxRec = 5
  MaxEnv = 3
INVARIANTS
  TypeOK
  Whole
  Kept
  Flushed
CHECK_DEADLOCK FALSE
