SPECIFICATION Spec
CONSTANTS
  WordBits <- MCWordBits
  SymbolLinks <- MCSymbolLinks
  Pages <- MCDisjunctionPages
  Xml <- MCXml
  Holds <- MCHolds
  Undefined <- MCUndefined
  GuardHolds <- MCGuardHolds
INVARIANTS
  NoWordLost
CHECK_DEADLOCK FALSE
