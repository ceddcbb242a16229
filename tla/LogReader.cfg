SPECIFICATION Spec
CONSTANTS
  Keep = 2
  MovMax = 3
  MaxRange = 4
  MaxRec = 5
  MaxEnv = 2
INVARIANT ReadHarmless
CHECK_DEADLOCK FALSE
