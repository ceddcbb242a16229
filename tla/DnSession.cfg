SPECIFICATION Spec
CONSTANTS
  Pkgs = {P, Q}
  Images = {I}
  Blocks = 2
  MaxCmd = 4
INVARIANTS
  UnpackedIntact
  NowWatched
  AgreedWhole
CHECK_DEADLOCK FALSE
