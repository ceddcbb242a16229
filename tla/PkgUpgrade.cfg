SPECIFICATION LiveSpec
CONSTANTS
  Pkgs = {P, Q}
  Amps = {a1}
  Psu = {psu}
  HasPsu = {P}
  HasPau = {P, Q}
  HasApp = {Q}
  MaxEvents = 1
INVARIANTS
  ResetAfterAll
  CompleteSent
PROPERTIES
  InsideEnds
  UpgradeEnds
CHECK_DEADLOCK FALSE
