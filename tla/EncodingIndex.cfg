SPECIFICATION Spec
CONSTANTS
  Inputs <- MCInputs
  UpperCase <- MCUpperCase
INVARIANTS
  TypeOK
  RowsAsWritten
  RegistryComplete
  AliasesComplete
