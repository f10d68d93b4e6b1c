SPECIFICATION Spec
CONSTANTS
  MaxBytes = 15
  MaxInstrs = 2
  Sources <- MCSources
  Requests <- MCRequests
INVARIANTS
  SweepInBounds
  SweepFindsInstructions
  EncodingsDistinct
CHECK_DEADLOCK FALSE
