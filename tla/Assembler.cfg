SPECIFICATION MCSpec
CONSTANTS
  Bit <- MCBit
  Form <- MCForm
  Calls <- AllCalls
  MaxWords = 4
  MaxLabels = 1
  MaxCalls = 5
INVARIANTS
  FinishAnswers
  NearBranchesReach
  ValuesReadBack
  OpcodesKept
  DistancesStored
