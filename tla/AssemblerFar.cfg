SPECIFICATION Spec
CONSTANTS
  Bit <- MCBit
  Form <- MCForm
  Calls <- FarCalls
  MaxWords = 4
  MaxLabels = 1
  MaxCalls = 4
INVARIANTS
  BranchesReach
