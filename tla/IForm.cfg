SPECIFICATION Spec
CONSTANTS
  WordBits <- MCWordBits
  SymbolLinks <- MCSymbolLinks
  Pages <- MCPages
  Xml <- MCXml
  Holds <- MCHolds
  Undefined <- MCUndefined
  GuardHolds <- MCGuardHolds
INVARIANTS
  NoWordLost
  NothingAdded
  ForbiddenAsWritten
  ReadsOwnClass
  AssemblesBack
CHECK_DEADLOCK FALSE
