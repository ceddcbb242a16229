SPECIFICATION MCSpec
CONSTANTS
  Amps = {p}
  MaxEvents = 2
INVARIANTS
  PathOwned
PROPERTIES
  UserOff
  Restored
  Resumed
  Saved
