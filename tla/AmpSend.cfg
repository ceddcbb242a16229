SPECIFICATION Spec
CONSTANTS
  Frames = 3
  MaxLine = 4
INVARIANTS
  AckedStored
  SuccessWhole
  FewFaults
PROPERTY TransferEnds
